---- MODULE Spec2Model ----
(***************************************************************************)
(* Exercise recognition core of psychoapp_backend:                         *)
(*   - ExerciseParser (authentication/exercise_parser.py),                 *)
(*   - ExerciseMatcher / QuickExerciseMatcher                              *)
(*     (authentication/exercise_matcher.py),                               *)
(*   - confirm_exercise_view and the read-only endpoints                   *)
(*     (authentication/views.py) over the Exercise / ExerciseAlias /       *)
(*     UserExerciseLog tables (authentication/models.py),                  *)
(*   - the scripts that write the same tables: the add_exercise_aliases    *)
(*     command (authentication/management/commands) and the translation    *)
(*     scripts (scripts/translate_exercises_*.py).                         *)
(*                                                                         *)
(* Text of a workout command is a sequence of atoms.  An atom is one       *)
(* character (a digit, " ", ":", ".") or one whole word; the text the      *)
(* program sees is the concatenation of the atoms.  Cyrillic words are     *)
(* written in Latin transliteration ("podhoda" is the word the source      *)
(* spells in Cyrillic, and so on); a word atom that is not one of the      *)
(* source's keywords stands for a word that contains no keyword and no     *)
(* digit.                                                                  *)
(***************************************************************************)
EXTENDS Integers, Sequences, FiniteSets, Bags, TLC

\* An optional value: None, or Some(v).  Python's None and a returned value.
None == <<>>
Some(v) == <<v>>

Min(a, b) == IF a <= b THEN a ELSE b
Max(a, b) == IF a >= b THEN a ELSE b

(***************************************************************************)
(* ExerciseParser: vocabulary                                              *)
(***************************************************************************)

\* NUMBER_WORDS, in the order of the dict (the order of the regex alternation).
NUMBER_WORDS ==
    [odin |-> 1, odna |-> 1, odnogo |-> 1, odnomu |-> 1,
     dva |-> 2, dve |-> 2, dvuh |-> 2,
     tri |-> 3, tryoh |-> 3, treh |-> 3,
     chetyre |-> 4, chetyryoh |-> 4, chetyreh |-> 4,
     pyat |-> 5, pyati |-> 5,
     shest |-> 6, shesti |-> 6,
     sem |-> 7, semi |-> 7,
     vosem |-> 8, vosmi |-> 8,
     devyat |-> 9, devyati |-> 9,
     desyat |-> 10, desyati |-> 10,
     odinnadcat |-> 11, odinnadcati |-> 11,
     dvenadcat |-> 12, dvenadcati |-> 12,
     pyatnadcat |-> 15, pyatnadcati |-> 15,
     dvadcat |-> 20, dvadcati |-> 20]

SETS_KEYWORDS == {"podhod", "podhoda", "podhodov", "set", "seta", "setov"}
REPS_KEYWORDS == {"raz", "raza", "povtor", "povtora", "povtorenie",
                  "povtoreniya", "povtoreniy"}
WEIGHT_KEYWORDS == {"kg", "kilogramm", "kilogramma", "kilo", "gramm"}

\* The sets keywords the first group sub-pattern spells out (no "set*").
GROUP_SETS_KEYWORDS == {"podhod", "podhoda", "podhodov"}

DigitValue == [d \in {"0", "1", "2", "3", "4", "5", "6", "7", "8", "9"} |->
                 CASE d = "0" -> 0 [] d = "1" -> 1 [] d = "2" -> 2
                   [] d = "3" -> 3 [] d = "4" -> 4 [] d = "5" -> 5
                   [] d = "6" -> 6 [] d = "7" -> 7 [] d = "8" -> 8
                   [] d = "9" -> 9]

IsDigit(a) == a \in DOMAIN DigitValue
IsNumberWord(a) == a \in DOMAIN NUMBER_WORDS
\* \s of the regular expressions and the characters str.strip() removes.
IsWS(a) == a \in {" ", "\t"}

\* str.lower() on an atom: the upper-case spellings the inputs use.
UpperAtoms ==
    [ZHIM |-> "zhim", LEZHA |-> "lezha", TRI |-> "tri",
     PODHODA |-> "podhoda", RAZ |-> "raz", KG |-> "kg", I |-> "i"]

LowerAtom(a) == IF a \in DOMAIN UpperAtoms THEN UpperAtoms[a] ELSE a

LowerText(s) == [i \in 1..Len(s) |-> LowerAtom(s[i])]

\* s[i..j] (empty when j < i), the slice text[i-1:j] of the source.
Slice(s, i, j) == IF j < i THEN <<>> ELSE SubSeq(s, i, j)

\* str.strip(): drop leading and trailing whitespace.
Strip(s) ==
    LET keep == {i \in 1..Len(s) : ~IsWS(s[i])}
    IN  IF keep = {} THEN <<>>
        ELSE LET lo == CHOOSE i \in keep : \A k \in keep : i <= k
                 hi == CHOOSE i \in keep : \A k \in keep : i >= k
             IN  SubSeq(s, lo, hi)

(***************************************************************************)
(* Regular-expression pieces.  A matcher at position i gives the position  *)
(* after the match, or 0 when there is no match at i; position 0 stands    *)
(* for a failed earlier piece, and every matcher fails on it.              *)
(***************************************************************************)

\* \s* from position i: the first position at or after i that is no whitespace.
SkipWS(s, i) ==
    IF i = 0 THEN 0
    ELSE LET stop == {j \in i..Len(s) : ~IsWS(s[j])}
         IN  IF stop = {} THEN Len(s) + 1
             ELSE CHOOSE j \in stop : \A k \in stop : j <= k

\* \s+ at position i.
WSEnd(s, i) ==
    IF i >= 1 /\ i <= Len(s) /\ IsWS(s[i]) THEN SkipWS(s, i) ELSE 0

\* \d+ at position i (greedy; what follows \d+ in every pattern is no digit).
DigitsEnd(s, i) ==
    IF i >= 1 /\ i <= Len(s) /\ IsDigit(s[i])
    THEN LET stop == {j \in i..Len(s) : ~IsDigit(s[j])}
         IN  IF stop = {} THEN Len(s) + 1
             ELSE CHOOSE j \in stop : \A k \in stop : j <= k
    ELSE 0

\* (\d+|odin|odna|...) at position i.
NumEnd(s, i) ==
    IF i < 1 \/ i > Len(s) THEN 0
    ELSE IF IsDigit(s[i]) THEN DigitsEnd(s, i)
    ELSE IF IsNumberWord(s[i]) THEN i + 1
    ELSE 0

\* One keyword of the set kw at position i.
KeywordEnd(s, i, kw) ==
    IF i >= 1 /\ i <= Len(s) /\ s[i] \in kw THEN i + 1 ELSE 0

\* int() of a digit string.
RECURSIVE IntOfDigits(_)
IntOfDigits(ds) ==
    IF ds = <<>> THEN 0
    ELSE 10 * IntOfDigits(SubSeq(ds, 1, Len(ds) - 1)) + DigitValue[ds[Len(ds)]]

\* ExerciseParser._extract_number: the token lower-cased and trimmed, then
\* read as a digit string, else looked up in NUMBER_WORDS, else 0.
extract_number(tok) ==
    LET Resolve(text) ==
            IF text # <<>> /\ \A k \in 1..Len(text) : IsDigit(text[k])
            THEN IntOfDigits(text)
            ELSE IF Len(text) = 1 /\ IsNumberWord(text[1])
                 THEN NUMBER_WORDS[text[1]]
                 ELSE 0
    IN  Resolve(Strip(LowerText(tok)))

RECURSIVE Pow10(_)
Pow10(n) == IF n = 0 THEN 1 ELSE 10 * Pow10(n - 1)

\* re.search: the lowest of the positions a pattern matches at, or 0.
Lowest(hits) ==
    IF hits = {} THEN 0 ELSE CHOOSE i \in hits : \A k \in hits : i <= k


\* \d+(?:\.\d+)? at position i.
DecEnd(s, i) ==
    LET Fraction(j) ==
            IF j = 0 THEN 0
            ELSE IF j <= Len(s) /\ s[j] = "." /\ DigitsEnd(s, j + 1) # 0
                 THEN DigitsEnd(s, j + 1)
                 ELSE j
    IN  Fraction(DigitsEnd(s, i))

\* A rational n/d with d a power of ten, trailing zeros of the fraction dropped.
RECURSIVE ReduceDec(_, _)
ReduceDec(n, d) ==
    IF d > 1 /\ n % 10 = 0 THEN ReduceDec(n \div 10, d \div 10)
    ELSE [n |-> n, d |-> d]

\* float() of a matched \d+(?:\.\d+)? : the number as a fraction of a power of ten.
FloatOf(tok) ==
    LET dots == {k \in 1..Len(tok) : tok[k] = "."}
    IN  IF dots = {} THEN [n |-> IntOfDigits(tok), d |-> 1]
        ELSE LET p == CHOOSE k \in dots : TRUE
                 whole == SubSeq(tok, 1, p - 1)
                 frac == SubSeq(tok, p + 1, Len(tok))
             IN  ReduceDec(IntOfDigits(whole \o frac), Pow10(Len(frac)))

\* (\d+|words)\s+(?:sets keywords) at position i: the simple pattern's marker.
SetsMarkerEnd(s, i) == KeywordEnd(s, WSEnd(s, NumEnd(s, i)), SETS_KEYWORDS)

\* (\d+|words)\s+(?:sets keywords)\s*: at position i: the complex pattern's marker.
TotalSetsMarkerEnd(s, i) ==
    LET k == SkipWS(s, SetsMarkerEnd(s, i))
    IN  IF k >= 1 /\ k <= Len(s) /\ s[k] = ":" THEN k + 1 ELSE 0

\* (\d+(?:\.\d+)?)\s*(?:weight keywords) at position i.
WeightEnd(s, i) == KeywordEnd(s, SkipWS(s, DecEnd(s, i)), WEIGHT_KEYWORDS)

\* (\d+|words)\s+(?:reps keywords) at position i.
RepsEnd(s, i) == KeywordEnd(s, WSEnd(s, NumEnd(s, i)), REPS_KEYWORDS)

\* (?:po\s+)? at position i.
OptPoEnd(s, i) ==
    IF i >= 1 /\ i <= Len(s) /\ s[i] = "po" /\ WSEnd(s, i + 1) # 0
    THEN WSEnd(s, i + 1)
    ELSE i

\* (?:iz\s+nih|podhod|podhoda|podhodov) at position i.
GroupConnectorEnd(s, i) ==
    IF i >= 1 /\ i <= Len(s) /\ s[i] = "iz"
       /\ KeywordEnd(s, WSEnd(s, i + 1), {"nih"}) # 0
    THEN KeywordEnd(s, WSEnd(s, i + 1), {"nih"})
    ELSE KeywordEnd(s, i, GROUP_SETS_KEYWORDS)

\* The tail both group sub-patterns share, from the reps number at position d:
\* (\d+|words)\s+(?:reps keywords)\s+(?:po\s+)?(\d+(?:\.\d+)?)\s*(?:weight keywords).
\* Gives the positions of the groups, end = 0 when there is no match.
GroupTail(s, d) ==
    LET Weight(e, m) ==
            [repsFrom |-> d, repsTo |-> e, weightFrom |-> m,
             weightTo |-> DecEnd(s, m), end |-> WeightEnd(s, m)]
        Reps(e) ==
            Weight(e, OptPoEnd(s, WSEnd(s,
                        KeywordEnd(s, WSEnd(s, e), REPS_KEYWORDS))))
    IN  Reps(NumEnd(s, d))

\* Sub-pattern 1 at position i: "X iz nih Y raz po Z kg".
Group1At(s, i) ==
    LET Count(a) ==
            [countFrom |-> i, countTo |-> a]
              @@ GroupTail(s, WSEnd(s, GroupConnectorEnd(s, WSEnd(s, a))))
    IN  Count(NumEnd(s, i))

\* Sub-pattern 2 at position i: "X Y raz po Z kg".
Group2At(s, i) ==
    LET Count(a) == [countFrom |-> i, countTo |-> a] @@ GroupTail(s, WSEnd(s, a))
    IN  Count(NumEnd(s, i))

Group1End(s, i) == Group1At(s, i).end
Group2End(s, i) == Group2At(s, i).end

(***************************************************************************)
(* ExerciseParser: the parsing methods                                     *)
(***************************************************************************)

\* \s+i\s+ at position i: the separator re.split cuts the groups at.
GroupSepEnd(s, i) == WSEnd(s, KeywordEnd(s, WSEnd(s, i), {"i"}))

\* re.split(r'\s+i\s+', s).
RECURSIVE SplitGroups(_)
SplitGroups(s) ==
    LET Cut(i) ==
            IF i = 0 THEN <<s>>
            ELSE <<Slice(s, 1, i - 1)>>
                   \o SplitGroups(Slice(s, GroupSepEnd(s, i), Len(s)))
    IN  Cut(Lowest({i \in 1..Len(s) : GroupSepEnd(s, i) # 0}))

\* re.search of the two sub-patterns in one group: the match, or None.
GroupMatch(g) ==
    LET Search(i1, i2) ==
            IF i1 # 0 THEN Some(Group1At(g, i1))
            ELSE IF i2 # 0 THEN Some(Group2At(g, i2))
            ELSE None
    IN  Search(Lowest({i \in 1..Len(g) : Group1End(g, i) # 0}),
               Lowest({i \in 1..Len(g) : Group2End(g, i) # 0}))

\* A faulty variant of GroupSets: the numbering starts again at 1 in each group.
GroupSetsFromOne(counter, count, reps, weight) ==
    [k \in 1..count |-> [set_number |-> k, reps |-> reps, weight_kg |-> weight]]

\* count copies of one set, numbered from counter on.
GroupSets(counter, count, reps, weight) ==
    [k \in 1..count |->
        [set_number |-> counter + k - 1, reps |-> reps, weight_kg |-> weight]]

\* A faulty variant of ComplexSets: the loop ends at the first group that
\* matches neither sub-pattern.
RECURSIVE ComplexSetsStopAtUnmatched(_, _, _)
ComplexSetsStopAtUnmatched(groups, k, counter) ==
    IF k > Len(groups) THEN <<>>
    ELSE LET g == groups[k]
             Append3(count, reps, weight) ==
                 GroupSets(counter, count, reps, weight)
                   \o ComplexSetsStopAtUnmatched(groups, k + 1, counter + count)
             Group(m) ==
                 IF m = None THEN <<>>
                 ELSE Append3(
                        extract_number(Slice(g, m[1].countFrom, m[1].countTo - 1)),
                        extract_number(Slice(g, m[1].repsFrom, m[1].repsTo - 1)),
                        FloatOf(Slice(g, m[1].weightFrom, m[1].weightTo - 1)))
         IN  Group(GroupMatch(g))

\* The loop over the groups of _parse_complex_pattern: the sets the groups
\* from index k on append, set_counter being counter.
RECURSIVE ComplexSets(_, _, _)
ComplexSets(groups, k, counter) ==
    IF k > Len(groups) THEN <<>>
    ELSE LET g == groups[k]
             Append3(count, reps, weight) ==
                 GroupSets(counter, count, reps, weight)
                   \o ComplexSets(groups, k + 1, counter + count)
             Group(m) ==
                 IF m = None THEN ComplexSets(groups, k + 1, counter)
                 ELSE Append3(
                        extract_number(Slice(g, m[1].countFrom, m[1].countTo - 1)),
                        extract_number(Slice(g, m[1].repsFrom, m[1].repsTo - 1)),
                        FloatOf(Slice(g, m[1].weightFrom, m[1].weightTo - 1)))
         IN  Group(GroupMatch(g))

\* A faulty variant of parse_complex_pattern: a marker whose groups emit no
\* set still gives a result.
parse_complex_pattern_KeepsEmpty(text) ==
    LET Groups(i, sets_description) ==
            Some([exercise_name |-> Strip(Slice(text, 1, i - 1)),
                  sets |-> ComplexSets(SplitGroups(sets_description), 1, 1)])
        Marker(i) ==
            IF i = 0 THEN None
            ELSE Groups(i, Strip(Slice(text, TotalSetsMarkerEnd(text, i), Len(text))))
    IN  Marker(Lowest({i \in 1..Len(text) : TotalSetsMarkerEnd(text, i) # 0}))

\* A faulty variant of parse_complex_pattern: the sets cut at the total
\* declared before the colon.
parse_complex_pattern_CutsAtTotal(text) ==
    LET Result(exercise_name, sets, total_sets) ==
            IF sets = <<>> \/ total_sets = 0 THEN None
            ELSE Some([exercise_name |-> exercise_name,
                       sets |-> SubSeq(sets, 1, Min(total_sets, Len(sets)))])
        Groups(i, sets_description) ==
            Result(Strip(Slice(text, 1, i - 1)),
                   ComplexSets(SplitGroups(sets_description), 1, 1),
                   extract_number(Slice(text, i, NumEnd(text, i) - 1)))
        Marker(i) ==
            IF i = 0 THEN None
            ELSE Groups(i, Strip(Slice(text, TotalSetsMarkerEnd(text, i), Len(text))))
    IN  Marker(Lowest({i \in 1..Len(text) : TotalSetsMarkerEnd(text, i) # 0}))

\* ExerciseParser._parse_complex_pattern: a record, or None.
parse_complex_pattern(text) ==
    LET Result(exercise_name, sets) ==
            IF sets = <<>> THEN None
            ELSE Some([exercise_name |-> exercise_name, sets |-> sets])
        Groups(i, sets_description) ==
            Result(Strip(Slice(text, 1, i - 1)),
                   ComplexSets(SplitGroups(sets_description), 1, 1))
        Marker(i) ==
            IF i = 0 THEN None
            ELSE Groups(i, Strip(Slice(text, TotalSetsMarkerEnd(text, i), Len(text))))
    IN  Marker(Lowest({i \in 1..Len(text) : TotalSetsMarkerEnd(text, i) # 0}))

\* ExerciseParser._extract_weight: the weight, or None.
extract_weight(text) ==
    LET Found(i) ==
            IF i = 0 THEN None
            ELSE Some(FloatOf(Slice(text, i, DecEnd(text, i) - 1)))
    IN  Found(Lowest({i \in 1..Len(text) : WeightEnd(text, i) # 0}))

\* ExerciseParser._extract_reps: the repetitions, or None.
extract_reps(text) ==
    LET Found(i) ==
            IF i = 0 THEN None
            ELSE Some(extract_number(Slice(text, i, NumEnd(text, i) - 1)))
    IN  Found(Lowest({i \in 1..Len(text) : RepsEnd(text, i) # 0}))

\* One set of the simple pattern: reps and weight_kg only when truthy.
SimpleSet(k, reps, weight) ==
    LET base == [set_number |-> k]
        withReps == IF reps # None /\ reps[1] # 0
                    THEN base @@ [reps |-> reps[1]] ELSE base
    IN  IF weight # None /\ weight[1].n # 0
        THEN withReps @@ [weight_kg |-> weight[1]] ELSE withReps

\* ExerciseParser._parse_simple_pattern: a record, or None.
parse_simple_pattern(text) ==
    LET Result(sets_count, exercise_name, weight, reps) ==
            IF exercise_name = <<>> THEN None
            ELSE Some([exercise_name |-> exercise_name,
                       sets |-> [k \in 1..sets_count |->
                                   SimpleSet(k, reps, weight)]])
        Marker(i) ==
            IF i = 0 THEN None
            ELSE Result(extract_number(Slice(text, i, NumEnd(text, i) - 1)),
                        Strip(Slice(text, 1, i - 1)),
                        extract_weight(text), extract_reps(text))
    IN  Marker(Lowest({i \in 1..Len(text) : SetsMarkerEnd(text, i) # 0}))

\* A faulty variant of parse_normalize: trimmed, but not lower-cased.
parse_normalize_NoLower(text) == Strip(text)

\* The first statement of ExerciseParser.parse.
parse_normalize(text) == Strip(LowerText(text))

\* ExerciseParser.parse.
parse(rawtext) ==
    LET Structured(text, match) ==
            [exercise_name |-> match[1].exercise_name, sets |-> match[1].sets,
             raw_text |-> text, is_structured |-> TRUE]
        Simple(text, simple_match) ==
            IF simple_match # None THEN Structured(text, simple_match)
            ELSE [exercise_name |-> text, sets |-> <<>>, raw_text |-> text,
                  is_structured |-> FALSE]
        Complex(text, complex_match) ==
            IF complex_match # None THEN Structured(text, complex_match)
            ELSE Simple(text, parse_simple_pattern(text))
        Normalized(text) == Complex(text, parse_complex_pattern(text))
    IN  Normalized(parse_normalize(rawtext))

(***************************************************************************)
(* Strings of the matcher and of the catalog: sequences of characters.     *)
(* A Latin letter is itself ("a", "B"); a Cyrillic letter is written       *)
(* "ru_" and its transliteration ("ru_zh"), upper case "RU_ZH".            *)
(***************************************************************************)

\* str.lower() on the upper-case characters the model's strings use.
UpperChars ==
    [A |-> "a", B |-> "b", RU_ZH |-> "ru_zh", RU_I |-> "ru_i", RU_M |-> "ru_m"]

LowerChar(c) == IF c \in DOMAIN UpperChars THEN UpperChars[c] ELSE c

\* str.lower().
Lower(s) == [i \in 1..Len(s) |-> LowerChar(s[i])]

\* \s of the regular expressions.
SpaceChars == {" ", "\t"}
\* Characters that are neither \w, nor \s, nor "-": what [^\w\s-] removes.
PunctChars == {"!", ",", ".", "?", ":"}

\* re.sub(r'[^\w\s-]', '', s).
RemovePunct(s) == LET Keep(c) == c \notin PunctChars IN SelectSeq(s, Keep)

\* The positions of s, in order.
Positions(s) == [i \in 1..Len(s) |-> i]

\* The characters of s at the positions kept, a whitespace character as " ".
SpacesAt(s, kept) ==
    [n \in 1..Len(kept) |-> IF s[kept[n]] \in SpaceChars THEN " " ELSE s[kept[n]]]

\* re.sub(r'\s+', ' ', s): every run of whitespace becomes one space.
CollapseSpaces(s) ==
    LET Kept(i) == s[i] \notin SpaceChars \/ i = 1 \/ s[i - 1] \notin SpaceChars
    IN  SpacesAt(s, SelectSeq(Positions(s), Kept))

\* The pieces of s from each start to the end of the same rank.
WordsBetween(s, starts, ends) ==
    [n \in 1..Len(starts) |-> SubSeq(s, starts[n], ends[n])]

\* str.split(): the maximal runs of non-whitespace characters.
SplitWords(s) ==
    LET Starts(i) == s[i] \notin SpaceChars /\ (i = 1 \/ s[i - 1] \in SpaceChars)
        Ends(i) == s[i] \notin SpaceChars /\ (i = Len(s) \/ s[i + 1] \in SpaceChars)
    IN  WordsBetween(s, SelectSeq(Positions(s), Starts), SelectSeq(Positions(s), Ends))

\* ' '.join(words), joining the two halves of the list.
RECURSIVE JoinWords(_)
JoinWords(ws) ==
    IF ws = <<>> THEN <<>>
    ELSE IF Len(ws) = 1 THEN ws[1]
    ELSE JoinWords(SubSeq(ws, 1, Len(ws) \div 2)) \o <<" ">>
         \o JoinWords(SubSeq(ws, Len(ws) \div 2 + 1, Len(ws)))

\* a in b for Python strings: a is a contiguous substring of b.
Contains(b, a) ==
    \E i \in 1..(Len(b) - Len(a) + 1) : SubSeq(b, i, i + Len(a) - 1) = a

\* The __icontains lookup: case-insensitive containment.
IContains(field, needle) == Contains(Lower(field), Lower(needle))

\* The __iexact lookup: case-insensitive equality.
IExact(field, value) == Lower(field) = Lower(value)

(***************************************************************************)
(* Text normalizers                                                        *)
(***************************************************************************)

STOP_WORDS_RU == {<<"ru_u", "ru_p", "ru_r", "ru_a", "ru_zh", "ru_n", "ru_e", "ru_n", "ru_i", "ru_e">>,
                  <<"ru_n", "ru_a">>,
                  <<"ru_d", "ru_l", "ru_ya">>,
                  <<"ru_s">>,
                  <<"ru_i">>,
                  <<"ru_v">>,
                  <<"ru_p", "ru_o">>}
STOP_WORDS_EN == {<<"e", "x", "e", "r", "c", "i", "s", "e">>,
                  <<"f", "o", "r">>,
                  <<"w", "i", "t", "h">>,
                  <<"o", "n">>,
                  <<"t", "h", "e">>,
                  <<"a", "n", "d">>,
                  <<"a">>}

\* QuickExerciseMatcher.normalize_text.
quick_normalize_text(text, language) ==
    LET stop_words == IF language = "ru" THEN STOP_WORDS_RU ELSE STOP_WORDS_EN
        words == SplitWords(RemovePunct(Strip(Lower(text))))
        Keep(w) == w \notin stop_words
    IN  JoinWords(SelectSeq(words, Keep))

\* ExerciseMatcher.normalize_text.
normalize_text(text) ==
    IF text = <<>> THEN <<>>
    ELSE CollapseSpaces(RemovePunct(Strip(Lower(text))))

(***************************************************************************)
(* Numbers.  A decimal number (a rounded score, a threshold, a score sent   *)
(* in a request) is the fraction [n, d] in lowest terms.                   *)
(***************************************************************************)

RECURSIVE GCD(_, _)
GCD(a, b) == IF b = 0 THEN a ELSE GCD(b, a % b)

Rat(n, d) == LET Reduced(g) == [n |-> n \div g, d |-> d \div g] IN Reduced(GCD(n, d))

\* x + y over the least common denominator, x * y with the common factors
\* of each numerator and the other denominator taken out first.
RAddOver(x, y, g) == Rat(x.n * (y.d \div g) + y.n * (x.d \div g), (x.d \div g) * y.d)
RAdd(x, y) == RAddOver(x, y, GCD(x.d, y.d))
RMulOver(x, y, g, h) ==
    Rat((x.n \div g) * (y.n \div h), (x.d \div h) * (y.d \div g))
RMul(x, y) == RMulOver(x, y, GCD(x.n, y.d), GCD(y.n, x.d))
RGe(x, y) == x.n * y.d >= y.n * x.d
RGt(x, y) == x.n * y.d > y.n * x.d

Zero == Rat(0, 1)
One == Rat(1, 1)

(***************************************************************************)
(* Python floats (IEEE 754 binary64, round to nearest, ties to even).  A   *)
(* float is kept as [exact, err]: exact is the fraction the computation    *)
(* gives in real numbers, err is what the roundings added to it, in units  *)
(* of 2^-53; the float is the number exact + err / 2^53.  The fractions    *)
(* of the computations below have denominators far below 2^20, so two      *)
(* floats with different exact parts differ by more than any err, and a    *)
(* float is ordered by its exact part first and its err second.            *)
(***************************************************************************)

\* 2^k for k >= 0.
RECURSIVE Pow2(_)
Pow2(k) == IF k = 0 THEN 1 ELSE 2 * Pow2(k - 1)

\* a * b modulo m for 0 <= a < m, by doubling: no product is formed, so the
\* numbers stay below 3 * m.
RECURSIVE MulMod(_, _, _)
MulMod(a, b, m) ==
    IF b = 0 THEN 0
    ELSE IF b % 2 = 0 THEN (2 * MulMod(a, b \div 2, m)) % m
    ELSE (2 * MulMod(a, b \div 2, m) + a) % m

\* 2^k modulo m, by squaring.
RECURSIVE Pow2Mod(_, _)
Pow2Mod(k, m) ==
    LET h == Pow2Mod(k \div 2, m)
    IN  IF k = 0 THEN 1 % m
        ELSE IF k % 2 = 0 THEN MulMod(h, h, m) ELSE (2 * MulMod(h, h, m)) % m

\* -1, 0 or 1 as the fraction x is below, at or above 0.
RSign(x) == IF x.n > 0 THEN 1 ELSE IF x.n < 0 THEN -1 ELSE 0

\* The real number exact + (eta + tiny) / 2^53, tiny a number far smaller than
\* any fraction here of which only the sign is kept, is at or above 2^-j.
AtLeastPow2(exact, eta, tiny, j) ==
    LET lhs == IF j >= 0 THEN exact.n * Pow2(j) ELSE exact.n
        rhs == IF j >= 0 THEN exact.d ELSE exact.d * Pow2(-j)
    IN  \/ lhs > rhs
        \/ lhs = rhs /\ (eta.n > 0 \/ (eta.n = 0 /\ tiny >= 0))

\* The binade of a positive real number below 4: the j with
\* 2^-(j+1) <= number < 2^-j, searched from j upwards.
RECURSIVE Binade(_, _, _, _)
Binade(exact, eta, tiny, j) ==
    IF AtLeastPow2(exact, eta, tiny, j + 1) THEN j
    ELSE Binade(exact, eta, tiny, j + 1)

\* The floats of one binade are the multiples of one unit.  The number to
\* round is whole + tn / td units, whole an integer of the given parity, and
\* exact is whole + r / exact.d units.  The result is the nearest multiple (a
\* tie goes to tiny's side, then to the even multiple); its distance from
\* exact, times up / down, is the err in units of 2^-53.
NearestUnit(exact, tiny, parity, r, tn, td, up, down) ==
    LET floor == tn \div td
        rest == tn % td
        above == IF rest = 0 THEN FALSE
                 ELSE IF 2 * rest # td THEN 2 * rest > td
                 ELSE IF tiny # 0 THEN tiny > 0
                 ELSE (parity + floor) % 2 = 1
        m == IF above THEN floor + 1 ELSE floor
    IN  [exact |-> exact, err |-> Rat((m * exact.d - r) * up, exact.d * down)]

\* The number exact + (eta + tiny) / 2^53 in the units 2^-(53+j) of its
\* binade j: exact is whole + (pm % exact.d) / exact.d units, pm being
\* exact.n * 2^(53+j) modulo 2 * exact.d, and eta is eta * 2^j units.
\* The two are added over the least common denominator, g being the
\* greatest common divisor of the denominators.
RoundOver(exact, eta, tiny, pm, up, down, g) ==
    NearestUnit(exact, tiny, pm \div exact.d, pm % exact.d,
                (pm % exact.d) * (eta.d \div g) * up + eta.n * down * (exact.d \div g),
                exact.d * (eta.d \div g) * up, up, down)
RoundInBinade(exact, eta, tiny, pm, up, down) ==
    RoundOver(exact, eta, tiny, pm, up, down, GCD(exact.d, eta.d))

\* The float nearest the real number exact + (eta + tiny) / 2^53, in the
\* binade j of the number.
RoundAt(exact, eta, tiny, j) ==
    RoundInBinade(exact, eta, tiny,
                  MulMod(exact.n % (2 * exact.d), Pow2Mod(53 + j, 2 * exact.d),
                         2 * exact.d),
                  IF j < 0 THEN Pow2(-j) ELSE 1, IF j > 0 THEN Pow2(j) ELSE 1)

\* The float nearest the real number exact + (eta + tiny) / 2^53.
RoundToFloat(exact, eta, tiny) ==
    IF exact = Zero THEN [exact |-> Zero, err |-> Zero]
    ELSE RoundAt(exact, eta, tiny, Binade(exact, eta, tiny, -2))

\* The float of a decimal literal n/d, and of the integers 0 and 1.
FloatLit(n, d) == RoundToFloat(Rat(n, d), Zero, 0)
FZero == FloatLit(0, 1)
FOne == FloatLit(1, 1)
\* The float literals of the scorers and of the thresholds: 0.05, 0.1, 0.15,
\* 0.25, 0.5 and 0.75 as doubles.
F005 == FloatLit(5, 100)
F01 == FloatLit(1, 10)
F015 == FloatLit(15, 100)
F025 == FloatLit(1, 4)
F05 == FloatLit(1, 2)
F075 == FloatLit(3, 4)

\* float(a) / float(b) for integers a >= 0 and b > 0 below 2^31.
FDiv(a, b) == RoundToFloat(Rat(a, b), Zero, 0)

\* x + y on floats.
FAdd(x, y) == RoundToFloat(RAdd(x.exact, y.exact), RAdd(x.err, y.err), 0)

\* x * y on floats: the product of the errs is the tiny part.
FMul(x, y) ==
    RoundToFloat(RMul(x.exact, y.exact),
                 RAdd(RMul(x.exact, y.err), RMul(y.exact, x.err)),
                 RSign(x.err) * RSign(y.err))

\* x >= y, x > y and min(x, y) on floats.
FGe(x, y) == RGt(x.exact, y.exact) \/ (x.exact = y.exact /\ RGe(x.err, y.err))
FGt(x, y) == RGt(x.exact, y.exact) \/ (x.exact = y.exact /\ RGt(x.err, y.err))
FMin(x, y) == IF FGe(y, x) THEN x ELSE y

\* round(x, 3) of a float x >= 0: the multiple of 1/1000 nearest the float;
\* only a float that is itself half-way goes to the even one.
Round3(x) ==
    LET q == (x.exact.n * 1000) \div x.exact.d
        r == (x.exact.n * 1000) % x.exact.d
        up == IF 2 * r # x.exact.d THEN 2 * r > x.exact.d
              ELSE IF RSign(x.err) # 0 THEN RSign(x.err) > 0
              ELSE q % 2 = 1
    IN  IF up THEN Rat(q + 1, 1000) ELSE Rat(q, 1000)

(***************************************************************************)
(* difflib.SequenceMatcher(None, a, b).ratio(), as the scorers call it:    *)
(* isjunk is None, so no character is junk, and autojunk keeps its default *)
(* True, so the popular characters of a long b are left out of b2j.        *)
(***************************************************************************)

\* The shortest b to which the junk heuristic applies (n >= 200).
AUTOJUNK_MIN_LEN == 200

\* The divisor of the popularity limit (ntest = n // 100 + 1).
AUTOJUNK_DIVISOR == 100

\* The number of positions of b that hold c: len(b2j[c]).
Occurrences(b, c) == Cardinality({j \in 1..Len(b) : b[j] = c})

\* __chain_b: the popular characters of b, which are removed from b2j.
bpopular(b) ==
    IF Len(b) >= AUTOJUNK_MIN_LEN
    THEN {c \in {b[j] : j \in 1..Len(b)} :
            Occurrences(b, c) > Len(b) \div AUTOJUNK_DIVISOR + 1}
    ELSE {}

\* The least of the numbers of a set that is not empty.
Least(S) == CHOOSE m \in S : \A k \in S : m <= k

\* The steps 0..limit-1 of a run that stop it, and the length they leave.
RunLength(stops, limit) == IF stops = {} THEN limit ELSE Least(stops)

\* The length of the common run of a from i and b from j, inside ..ahi, ..bhi,
\* that b2j can see: it stops at a popular character.
CommonRun(a, b, popular, i, j, ahi, bhi) ==
    IF i > ahi \/ j > bhi THEN 0
    ELSE IF a[i] # b[j] \/ b[j] \in popular THEN 0
    ELSE RunLength({m \in 1..Min(ahi - i, bhi - j) :
                        a[i + m] # b[j + m] \/ b[j + m] \in popular},
                   Min(ahi - i, bhi - j) + 1)

\* The length of the common run of a before i and b before j, back to alo, blo.
BackRun(a, b, i, j, alo, blo) ==
    RunLength({m \in 0..(Min(i - alo, j - blo) - 1) : a[i - 1 - m] # b[j - 1 - m]},
              Max(Min(i - alo, j - blo), 0))

\* The runs of every pair of positions of a[alo..ahi] and b[blo..bhi].
RunSizes(a, b, popular, alo, ahi, blo, bhi) ==
    [p \in (alo..ahi) \X (blo..bhi) |->
        CommonRun(a, b, popular, p[1], p[2], ahi, bhi)]

\* bestsize after the loop over b2j.
LongestRun(sizes) ==
    IF DOMAIN sizes = {} THEN 0
    ELSE CHOOSE k \in {sizes[p] : p \in DOMAIN sizes} :
            \A p \in DOMAIN sizes : sizes[p] <= k

\* besti, bestj after the loop over b2j: bestsize is replaced only by a longer
\* run, so of the longest runs the one starting earliest in a, of those the
\* one starting earliest in b, stays.
FirstRun(sizes, k) ==
    CHOOSE p \in DOMAIN sizes :
        /\ sizes[p] = k
        /\ \A q \in DOMAIN sizes :
              sizes[q] = k => \/ p[1] < q[1]
                              \/ p[1] = q[1] /\ p[2] <= q[2]

\* Match(besti, bestj, bestsize) with besti and bestj taken from a pair.
Block(p, k) == [i |-> p[1], j |-> p[2], k |-> k]

\* The loop over b2j of find_longest_match, which starts from (alo, blo, 0).
BestRun(sizes, k, alo, blo) ==
    IF k = 0 THEN [i |-> alo, j |-> blo, k |-> 0]
    ELSE Block(FirstRun(sizes, k), k)

\* The block m with back characters more before it and forth after it.
Extended(m, back, forth) ==
    [i |-> m.i - back, j |-> m.j - back, k |-> m.k + back + forth]

\* The two extension loops, backwards then forwards over equal characters,
\* popular or not; they run from (alo, blo) too when the loop over b2j found
\* nothing.  The two loops over junk never run, bjunk is empty.
Extend(a, b, m, alo, ahi, blo, bhi) ==
    Extended(m, BackRun(a, b, m.i, m.j, alo, blo),
             CommonRun(a, b, {}, m.i + m.k, m.j + m.k, ahi, bhi))

\* The best run b2j shows in a[alo..ahi] and b[blo..bhi].
JunkFreeMatch(sizes, alo, blo) == BestRun(sizes, LongestRun(sizes), alo, blo)

\* find_longest_match on a[alo..ahi] and b[blo..bhi] (positions from 1).
LongestMatch(a, b, alo, ahi, blo, bhi) ==
    Extend(a, b, JunkFreeMatch(RunSizes(a, b, bpopular(b), alo, ahi, blo, bhi), alo, blo),
           alo, ahi, blo, bhi)

\* get_matching_blocks: the total size of the matching blocks.
RECURSIVE MatchingSize(_, _, _, _, _, _)
MatchingSize(a, b, alo, ahi, blo, bhi) ==
    IF alo > ahi \/ blo > bhi THEN 0
    ELSE LET Around(m) ==
                 IF m.k = 0 THEN 0
                 ELSE m.k + MatchingSize(a, b, alo, m.i - 1, blo, m.j - 1)
                          + MatchingSize(a, b, m.i + m.k, ahi, m.j + m.k, bhi)
         IN  Around(LongestMatch(a, b, alo, ahi, blo, bhi))

\* SequenceMatcher(None, a, b).ratio().
Ratio(a, b) ==
    IF Len(a) + Len(b) = 0 THEN FOne
    ELSE FDiv(2 * MatchingSize(a, b, 1, Len(a), 1, Len(b)), Len(a) + Len(b))

\* s[:n].
Prefix(s, n) == SubSeq(s, 1, Min(n, Len(s)))

\* s.startswith(t).
StartsWith(s, t) == Len(t) <= Len(s) /\ SubSeq(s, 1, Len(t)) = t

\* set(s.split()).
WordSet(s) == LET ws == SplitWords(s) IN {ws[i] : i \in 1..Len(ws)}

\* QuickExerciseMatcher.calculate_similarity: bonus after the containment
\* test, after the common-prefix test, and after the word overlap.
ContainmentBonus(text1, text2) ==
    IF Contains(text2, text1) \/ Contains(text1, text2)
    THEN FAdd(FZero, F015) ELSE FZero

PrefixBonus(bonus, text1, text2, min_len) ==
    IF min_len >= 3 /\ Prefix(text1, Min(5, min_len)) = Prefix(text2, Min(5, min_len))
    THEN FAdd(bonus, F01) ELSE bonus

WordOverlapBonus(bonus, words1, words2) ==
    IF words1 # {} /\ words2 # {}
    THEN FAdd(bonus, FMul(FDiv(Cardinality(words1 \cap words2),
                               Cardinality(words1 \cup words2)),
                          F01))
    ELSE bonus

\* QuickExerciseMatcher.calculate_similarity.
quick_calculate_similarity(text1, text2) ==
    FMin(FOne,
         FAdd(Ratio(text1, text2),
              WordOverlapBonus(PrefixBonus(ContainmentBonus(text1, text2),
                                           text1, text2,
                                           Min(Len(text1), Len(text2))),
                               WordSet(text1), WordSet(text2))))

\* ExerciseMatcher.calculate_similarity: the two bonuses of normalized texts.
SubstringBonus(norm_text1, norm_text2) ==
    IF Contains(norm_text2, norm_text1) \/ Contains(norm_text1, norm_text2)
    THEN F01 ELSE FZero

StartBonus(norm_text1, norm_text2) ==
    IF \/ StartsWith(norm_text1, Prefix(norm_text2, Min(5, Len(norm_text2))))
       \/ StartsWith(norm_text2, Prefix(norm_text1, Min(5, Len(norm_text1))))
    THEN F005 ELSE FZero

\* The sum ExerciseMatcher.calculate_similarity caps, of normalized texts.
BonusSimilarity(norm_text1, norm_text2) ==
    FAdd(FAdd(Ratio(norm_text1, norm_text2),
              SubstringBonus(norm_text1, norm_text2)),
         StartBonus(norm_text1, norm_text2))

\* ExerciseMatcher.calculate_similarity, of the normalized texts.
NormalizedSimilarity(norm_text1, norm_text2) ==
    IF norm_text1 = <<>> \/ norm_text2 = <<>> THEN FZero
    ELSE FMin(FOne, BonusSimilarity(norm_text1, norm_text2))

\* A faulty variant of calculate_similarity: the sum is not capped at 1.0.
calculate_similarity_NoCap(text1, text2) ==
    LET Score(norm_text1, norm_text2) ==
            IF norm_text1 = <<>> \/ norm_text2 = <<>> THEN FZero
            ELSE BonusSimilarity(norm_text1, norm_text2)
    IN  Score(normalize_text(text1), normalize_text(text2))

\* ExerciseMatcher.calculate_similarity.
calculate_similarity(text1, text2) ==
    NormalizedSimilarity(normalize_text(text1), normalize_text(text2))

(***************************************************************************)
(* The catalog store: the tables of authentication/models.py               *)
(***************************************************************************)

VARIABLES
    is_active,      \* Exercise.is_active, per exercise id
    name_ru,        \* Exercise.name_ru, per exercise id
    usage_count,    \* Exercise.usage_count, per exercise id
    aliases,        \* the exercise_aliases table: row pk -> [exercise, alias, match_count]
    logs,           \* the user_exercise_logs table: a bag of rows
    pc,             \* per request worker: where it is in confirm_exercise_view
    req,            \* per request worker: the validated data of its confirm request
    loc,            \* per request worker: the model instances it holds in memory
    response,       \* per request worker: the HTTP status of its last response
    body,           \* per request worker: the 'exercise' of its last 201 response
    accepted,       \* per exercise id: confirm requests that got past the lookup
    confirmed,      \* per exercise id: confirm requests answered 201
    nrequests,      \* confirm requests that got past the lookup so far
    lastRead,       \* the reader: its request, the rows it has read, its response
    ptext,          \* ExerciseParser.parse: the text being parsed
    pstage,         \* ExerciseParser.parse: the stage reached
    presult,        \* ExerciseParser.parse: the result dict
    cmd,            \* the add_exercise_aliases command: where it is in handle
    tr              \* a translation script: the exercise instance it holds

dbvars == <<is_active, name_ru, usage_count, aliases, logs>>
confirmvars == <<pc, req, loc, response, body, accepted, confirmed, nrequests>>
parsevars == <<ptext, pstage, presult>>
scriptvars == <<cmd, tr>>
vars == <<is_active, name_ru, usage_count, aliases, logs, pc, req, loc, response,
          body, accepted, confirmed, nrequests, lastRead, ptext, pstage, presult,
          cmd, tr>>

\* The exercise rows of the catalog as the fixture loads them: the fields no
\* operation here writes, and name_ru as it is before any translation.
\* The rows e4 to e7 are active in every store the specifications start from.
ExerciseIds == {"e1", "e2", "e3", "e4", "e5", "e6", "e7"}

Catalog ==
    [e1 |-> [name |-> <<"A", "b">>, name_ru |-> <<"RU_ZH", "ru_i", "ru_m">>,
             description |-> <<"b", "a">>, category |-> "physical",
             difficulty |-> "beginner"],
     e2 |-> [name |-> <<"a", "b", "b">>, name_ru |-> <<"ru_zh", "ru_i", "ru_m">>,
             description |-> <<"a", "b">>, category |-> "physical",
             difficulty |-> "beginner"],
     e3 |-> [name |-> <<"b", "a">>, name_ru |-> <<>>,
             description |-> <<>>, category |-> "breathing",
             difficulty |-> "advanced"],
     e4 |-> [name |-> <<"a", "a", "b">>, name_ru |-> <<>>,
             description |-> <<>>, category |-> "physical",
             difficulty |-> "advanced"],
     e5 |-> [name |-> <<"b", "a", "b">>, name_ru |-> <<>>,
             description |-> <<>>, category |-> "breathing",
             difficulty |-> "advanced"],
     e6 |-> [name |-> <<"a", "b", "a", "b">>, name_ru |-> <<>>,
             description |-> <<>>, category |-> "physical",
             difficulty |-> "advanced"],
     e7 |-> [name |-> <<"b", "b", "b", "b", "b", "x">>, name_ru |-> <<>>,
             description |-> <<>>, category |-> "breathing",
             difficulty |-> "advanced"]]

\* The alias rows the seed data holds (match_count default 0).
SeedAliases ==
    <<[exercise |-> "e1", alias |-> <<"A", "B">>, match_count |-> 0],
      [exercise |-> "e2", alias |-> <<"a", "b">>, match_count |-> 0]>>

\* Code points, for the ORDER BY on name and on alias.
CharCode ==
    (" " :> 32) @@ ("!" :> 33) @@ ("-" :> 45) @@ ("A" :> 65) @@ ("B" :> 66)
    @@ ("a" :> 97) @@ ("b" :> 98) @@ ("x" :> 120)
    @@ ("RU_ZH" :> 1046) @@ ("RU_I" :> 1048) @@ ("RU_M" :> 1052)
    @@ ("ru_zh" :> 1078) @@ ("ru_i" :> 1080) @@ ("ru_m" :> 1084)

\* s < t in the order of the code points.
RECURSIVE StrLt(_, _)
StrLt(s, t) ==
    IF t = <<>> THEN FALSE
    ELSE IF s = <<>> THEN TRUE
    ELSE IF s[1] # t[1] THEN CharCode[s[1]] < CharCode[t[1]]
    ELSE StrLt(Tail(s), Tail(t))

\* Exercise.Meta.ordering = ['-usage_count', 'name'].
ExerciseBefore(x, y) ==
    \/ usage_count[x] > usage_count[y]
    \/ usage_count[x] = usage_count[y] /\ StrLt(Catalog[x].name, Catalog[y].name)

\* The exercises of the set S as the rows of a queryset, in Meta.ordering.
RECURSIVE ExerciseRows(_)
ExerciseRows(S) ==
    IF S = {} THEN <<>>
    ELSE LET first == CHOOSE x \in S : \A y \in S \ {x} : ExerciseBefore(x, y)
         IN  <<first>> \o ExerciseRows(S \ {first})

\* ExerciseAlias.Meta.ordering = ['-match_count', 'alias'].
AliasBefore(x, y) ==
    \/ aliases[x].match_count > aliases[y].match_count
    \/ aliases[x].match_count = aliases[y].match_count
         /\ StrLt(aliases[x].alias, aliases[y].alias)

\* The alias rows (pks) of the set S, in Meta.ordering.
RECURSIVE AliasRows(_)
AliasRows(S) ==
    IF S = {} THEN <<>>
    ELSE LET first == CHOOSE x \in S : \A y \in S \ {x} : AliasBefore(x, y)
         IN  <<first>> \o AliasRows(S \ {first})

\* exercise.aliases: the pks of the alias rows of exercise e.
AliasesOf(e) == {k \in DOMAIN aliases : aliases[k].exercise = e}

\* queryset[:n].
Take(seq, n) ==
    IF n >= 0 THEN SubSeq(seq, 1, Min(n, Len(seq)))
    ELSE SubSeq(seq, 1, Max(0, Len(seq) + n))

\* Exercise.objects.filter(is_active=True).
ActiveExercises == {e \in ExerciseIds : is_active[e]}

(***************************************************************************)
(* ExerciseMatcher and QuickExerciseMatcher                                *)
(***************************************************************************)

\* AUTO_MATCH_THRESHOLD is compared with a rounded score, SUGGEST_THRESHOLD
\* with the float the scorer returned.
AUTO_MATCH_THRESHOLD == Rat(85, 100)
SUGGEST_THRESHOLD == F05
MAX_SUGGESTIONS == 5
\* A faulty variant of QUICK_EXACT_THRESHOLD: GOOD_THRESHOLD in its place.
QUICK_GOOD_THRESHOLD == Rat(75, 100)
QUICK_EXACT_THRESHOLD == Rat(90, 100)
QUICK_SUGGEST_THRESHOLD == F05
\* The row caps of the quick matcher's queries, and the hard cap of the view.
QUICK_NARROW_ROWS == 20
QUICK_SCAN_ROWS == 100
QUICK_MAX_RESULTS == 5
\* The category argument when no category is given.
NoCategory == "none"
\* Exercise.CATEGORY_CHOICES: the values a category may take.
CATEGORY_CHOICES == {"breathing", "relaxation", "meditation", "physical",
                     "mindfulness", "visualization", "cognitive", "other"}
\* The test 'if category:' of the matchers and the list view: None and the
\* empty string do not filter.
Filters(category) == category # NoCategory /\ category # ""

\* The loop over the variants: the best score and the first variant that
\* reaches it; (0.0, fallback) when no variant scores above 0.0.
BestVariant(scores, variants, fallback) ==
    LET above == {i \in 1..Len(scores) : FGt(scores[i], FZero)}
        top == {i \in above : \A k \in above : FGe(scores[i], scores[k])}
    IN  IF above = {} THEN [score |-> FZero, variant |-> fallback]
        ELSE LET i == CHOOSE i \in top : \A k \in top : i <= k
             IN  [score |-> scores[i], variant |-> variants[i]]

\* A faulty variant of SortByScore: among equal scores the last row comes first.
RECURSIVE SortByScoreLastFirst(_)
SortByScoreLastFirst(ms) ==
    IF ms = <<>> THEN <<>>
    ELSE LET top == {i \in 1..Len(ms) :
                        \A k \in 1..Len(ms) : RGe(ms[i].score, ms[k].score)}
             i == CHOOSE i \in top : \A k \in top : i >= k
         IN  <<ms[i]>> \o SortByScoreLastFirst(SubSeq(ms, 1, i - 1)
                                                 \o SubSeq(ms, i + 1, Len(ms)))

\* list.sort(key=score, reverse=True): stable, descending.
RECURSIVE SortByScore(_)
SortByScore(ms) ==
    IF ms = <<>> THEN <<>>
    ELSE LET top == {i \in 1..Len(ms) :
                        \A k \in 1..Len(ms) : RGe(ms[i].score, ms[k].score)}
             i == CHOOSE i \in top : \A k \in top : i <= k
         IN  <<ms[i]>> \o SortByScore(SubSeq(ms, 1, i - 1) \o SubSeq(ms, i + 1, Len(ms)))

\* The alias strings of exercise e, in the order exercise.aliases.all() gives.
AliasStrings(e) ==
    LET rows == AliasRows(AliasesOf(e))
    IN  [i \in 1..Len(rows) |-> aliases[rows[i]].alias]

\* One row of the exercises table as a SELECT returns it now: the id and the
\* fields some operation writes.
ExerciseRow(e) == [id |-> e, name_ru |-> name_ru[e], usage_count |-> usage_count[e]]

\* The rows of the exercises of the set S as a SELECT returns them now.
SelectRows(S) ==
    LET ids == ExerciseRows(S) IN [i \in 1..Len(ids) |-> ExerciseRow(ids[i])]

\* prefetch_related('aliases'): the second statement of a queryset that
\* returned rows, the alias strings of each row as the alias table holds
\* them now.
PrefetchAliases(rows) == [i \in 1..Len(rows) |-> AliasStrings(rows[i].id)]

\* A faulty variant of MatchQuery: the is_active filter is left out.
MatchQueryAnyState(category) ==
    SelectRows({e \in ExerciseIds :
                   Filters(category) => Catalog[e].category = category})

\* The rows of the catalog query of ExerciseMatcher.find_matches.
MatchQuery(category) ==
    SelectRows({e \in ExerciseIds :
                   /\ is_active[e]
                   /\ (Filters(category) => Catalog[e].category = category)})

\* ExerciseMatcher.find_matches: the variants of one exercise row, given the
\* alias strings prefetched for it, and the score of each.
MatchVariants(exercise, alias_strings) ==
    <<Catalog[exercise.id].name>> \o alias_strings

MatchScores(normalized_input, variants) ==
    [i \in 1..Len(variants) |-> calculate_similarity(normalized_input, variants[i])]

\* ExerciseMatcher.find_matches: the dict appended for an exercise row whose
\* best variant is best.
MatchDict(exercise, best) ==
    [exercise_id |-> exercise.id, name_ru |-> exercise.name_ru,
     matched_variant |-> best.variant, max_similarity |-> best.score,
     score |-> Round3(best.score), usage_count |-> exercise.usage_count]

\* ExerciseMatcher.find_matches: the candidate of one exercise row.
MatchCandidate(normalized_input, exercise, alias_strings) ==
    MatchDict(exercise,
              BestVariant(MatchScores(normalized_input,
                                      MatchVariants(exercise, alias_strings)),
                          MatchVariants(exercise, alias_strings),
                          Catalog[exercise.id].name))

\* The candidates of the rows, in the order of the rows.
MatchCandidates(normalized_input, exercises, prefetched) ==
    [i \in 1..Len(exercises) |->
        MatchCandidate(normalized_input, exercises[i], prefetched[i])]

\* A faulty variant of find_matches_with: the scores below the threshold kept.
find_matches_with_KeepsBelow(threshold, recognized_text, exercises, prefetched) ==
    LET Keep(m) == ~FGe(m.max_similarity, threshold)
    IN  IF recognized_text = <<>> THEN <<>>
        ELSE Take(SortByScore(SelectSeq(
                      MatchCandidates(normalize_text(recognized_text),
                                      exercises, prefetched),
                      Keep)),
                  MAX_SUGGESTIONS)

\* ExerciseMatcher.find_matches on the rows and the alias strings its two
\* statements returned, with cls.SUGGEST_THRESHOLD set to threshold.
find_matches_with(threshold, recognized_text, exercises, prefetched) ==
    LET Keep(m) == FGe(m.max_similarity, threshold)
    IN  IF recognized_text = <<>> THEN <<>>
        ELSE Take(SortByScore(SelectSeq(
                      MatchCandidates(normalize_text(recognized_text),
                                      exercises, prefetched),
                      Keep)),
                  MAX_SUGGESTIONS)

\* ExerciseMatcher.find_matches.
find_matches(recognized_text, exercises, prefetched) ==
    find_matches_with(SUGGEST_THRESHOLD, recognized_text, exercises, prefetched)

\* A faulty variant of get_best_match: the top candidate whatever its score.
get_best_match_AnyTop(matches) ==
    IF matches = <<>> THEN None ELSE Some(matches[1])

\* ExerciseMatcher.get_best_match, from the list find_matches returned: the
\* best candidate, or None.
get_best_match(matches) ==
    IF matches = <<>> THEN None
    ELSE IF RGe(matches[1].score, AUTO_MATCH_THRESHOLD) THEN Some(matches[1])
    ELSE None

\* ExerciseMatcher.search_exercises: the rows returned (one statement).
search_exercises(query, category, difficulty, limit) ==
    LET hit(e) == \/ query = <<>>
                  \/ IContains(Catalog[e].name, query)
                  \/ IContains(Catalog[e].description, query)
                  \/ \E k \in AliasesOf(e) : IContains(aliases[k].alias, query)
        rows == ExerciseRows({e \in ExerciseIds :
                    /\ is_active[e]
                    /\ (Filters(category) => Catalog[e].category = category)
                    /\ (Filters(difficulty) => Catalog[e].difficulty = difficulty)
                    /\ hit(e)})
        taken == Take(rows, limit)
    IN  [i \in 1..Len(taken) |->
           [exercise_id |-> taken[i], usage_count |-> usage_count[taken[i]]]]

\* The three catalog queries of QuickExerciseMatcher.find_matches, each
\* capped, as the store answers them now.
QuickStage1(text, language) ==
    Take(SelectRows({e \in ExerciseIds :
            /\ is_active[e]
            /\ IContains(IF language = "ru" THEN name_ru[e]
                         ELSE Catalog[e].name, Lower(text))}),
         QUICK_NARROW_ROWS)

QuickStage2(text) ==
    Take(SelectRows({e \in ExerciseIds :
            /\ is_active[e]
            /\ \/ \E k \in AliasesOf(e) : IContains(aliases[k].alias, Lower(text))
               \/ IContains(Catalog[e].name, Lower(text))
               \/ IContains(name_ru[e], Lower(text))}),
         QUICK_NARROW_ROWS)

QuickStage3 ==
    Take(SelectRows({e \in ExerciseIds : is_active[e]}), QUICK_SCAN_ROWS)

\* The queryset the variable exercises holds after stage assignments.
QuickQuery(stage, text, language) ==
    IF stage = 1 THEN QuickStage1(text, language)
    ELSE IF stage = 2 THEN QuickStage2(text)
    ELSE QuickStage3

\* QuickExerciseMatcher.find_matches: the variants of one exercise row.
QuickVariants(exercise, alias_strings, language) ==
    LET en == <<quick_normalize_text(Catalog[exercise.id].name, "en")>>
        ru == IF exercise.name_ru # <<>>
              THEN <<quick_normalize_text(exercise.name_ru, "ru")>> ELSE <<>>
    IN  (IF language = "ru" THEN ru \o en ELSE en \o ru)
          \o [i \in 1..Len(alias_strings) |->
                 quick_normalize_text(alias_strings[i], language)]

\* QuickExerciseMatcher.find_matches: the score of each variant.
QuickScores(normalized_input, variants) ==
    [i \in 1..Len(variants) |->
        quick_calculate_similarity(normalized_input, variants[i])]

\* QuickExerciseMatcher.find_matches: the dict appended for an exercise row
\* whose best variant is best.
QuickDict(exercise, best) ==
    [id |-> exercise.id, name_ru |-> exercise.name_ru,
     matched_variant |-> best.variant, max_similarity |-> best.score,
     score |-> Round3(best.score)]

\* QuickExerciseMatcher.find_matches: the candidate of one exercise row.
QuickCandidate(normalized_input, exercise, alias_strings, language) ==
    QuickDict(exercise,
              BestVariant(
                  QuickScores(normalized_input,
                              QuickVariants(exercise, alias_strings, language)),
                  QuickVariants(exercise, alias_strings, language),
                  Catalog[exercise.id].name))

\* The candidates of the rows, in the order of the rows.
QuickCandidates(normalized_input, exercises, prefetched, language) ==
    [i \in 1..Len(exercises) |->
        QuickCandidate(normalized_input, exercises[i], prefetched[i], language)]

\* QuickExerciseMatcher.find_matches on the rows and the alias strings its
\* last two statements returned, with cls.SUGGEST_THRESHOLD set to threshold.
quick_find_matches_with(threshold, text, language, max_results, exercises, prefetched) ==
    LET Keep(m) == FGe(m.max_similarity, threshold)
    IN  Take(SortByScore(SelectSeq(
                 QuickCandidates(quick_normalize_text(text, language),
                                 exercises, prefetched, language),
                 Keep)),
             max_results)

\* QuickExerciseMatcher.find_matches.
quick_find_matches(text, language, max_results, exercises, prefetched) ==
    quick_find_matches_with(QUICK_SUGGEST_THRESHOLD, text, language, max_results,
                            exercises, prefetched)

(***************************************************************************)
(* confirm_exercise_view.  Every ORM call is one statement of its own on   *)
(* the store (the view opens no transaction); request workers interleave   *)
(* between statements.                                                     *)
(***************************************************************************)

Procs == {"w1", "w2"}

\* Confirm requests that get past the lookup in one run.
MaxRequests == 3

\* The promotion threshold of the view.
PROMOTE_THRESHOLD == Rat(7, 10)

\* Well-formed UUIDs: the ids of the rows and one id of no row.
WellFormedIds == ExerciseIds \cup {"e9"}

\* The request bodies of the confirm endpoint.
ConfirmIdInputs == {"e1", "e3", "e9", "not-a-uuid"}
ConfirmTextInputs == {<<"a", "b">>, <<"B", "!">>, <<" ">>}
ConfirmScoreInputs == {None, Some(Rat(69, 100)), Some(Rat(7, 10))}

NoReq == [exercise_id |-> "", recognized_text |-> <<>>, similarity_score |-> None]
NoLoc == [usage_count |-> 0, alias_pk |-> 0, match_count |-> 0]
\* A response without the 'exercise' entry: every status but 201.
NoData == [usage_count |-> 0, aliases |-> <<>>]

\* ExerciseConfirmSerializer.is_valid(): exercise_id is a UUID and
\* recognized_text is not blank once trimmed.
ConfirmSerializerValid(data) ==
    /\ data.exercise_id \in WellFormedIds
    /\ Strip(data.recognized_text) # <<>>

\* serializer.validated_data: CharField trims the text.
ConfirmValidated(data) ==
    [exercise_id |-> data.exercise_id,
     recognized_text |-> Strip(data.recognized_text),
     similarity_score |-> data.similarity_score]

\* A faulty variant of ExerciseFound: the lookup without is_active=True.
ExerciseFoundAnyState(id) == id \in ExerciseIds

\* Exercise.objects.get(id=exercise_id, is_active=True) finds a row.
ExerciseFound(id) == id \in ExerciseIds /\ is_active[id]

\* validated_data.get('similarity_score', 0.0) >= 0.7.
Promotes(r) ==
    r.similarity_score # None /\ RGe(r.similarity_score[1], PROMOTE_THRESHOLD)

\* exercise.aliases.filter(alias__iexact=normalized_text): the pks.
ExistingAliases(e, normalized_text) ==
    {k \in AliasesOf(e) : IExact(aliases[k].alias, normalized_text)}

\* A faulty variant of UniqueViolation: a table without the constraint.
NoUniqueViolation(e, alias) == FALSE

\* unique_together = [['exercise', 'alias']]: the INSERT would break it.
UniqueViolation(e, alias) ==
    \E k \in DOMAIN aliases : aliases[k].exercise = e /\ aliases[k].alias = alias

\* The worker ends its request with the given status and 'exercise' entry.
Finish(p, status, data) ==
    /\ pc' = [pc EXCEPT ![p] = "idle"]
    /\ req' = [req EXCEPT ![p] = NoReq]
    /\ loc' = [loc EXCEPT ![p] = NoLoc]
    /\ response' = [response EXCEPT ![p] = status]
    /\ body' = [body EXCEPT ![p] = data]
    /\ confirmed' = IF status = 201
                    THEN [confirmed EXCEPT ![req[p].exercise_id] = @ + 1]
                    ELSE confirmed

\* Lines 587-599: validation and the lookup of the exercise.
ConfirmReceive(p, data) ==
    /\ pc[p] = "idle"
    /\ nrequests < MaxRequests
    /\ IF ~ConfirmSerializerValid(data)
       THEN /\ response' = [response EXCEPT ![p] = 400]
            /\ body' = [body EXCEPT ![p] = NoData]
            /\ UNCHANGED <<pc, req, loc, accepted, nrequests, scriptvars>>
       ELSE IF ~ExerciseFound(data.exercise_id)
       THEN /\ response' = [response EXCEPT ![p] = 404]
            /\ body' = [body EXCEPT ![p] = NoData]
            /\ UNCHANGED <<pc, req, loc, accepted, nrequests, scriptvars>>
       ELSE /\ nrequests' = nrequests + 1
            /\ pc' = [pc EXCEPT ![p] = "create_log"]
            /\ req' = [req EXCEPT ![p] = ConfirmValidated(data)]
            /\ loc' = [loc EXCEPT ![p] =
                         [NoLoc EXCEPT !.usage_count = usage_count[data.exercise_id]]]
            /\ accepted' = [accepted EXCEPT ![data.exercise_id] = @ + 1]
            /\ response' = [response EXCEPT ![p] = 0]
            /\ body' = [body EXCEPT ![p] = NoData]
    /\ UNCHANGED <<dbvars, confirmed, lastRead, parsevars, scriptvars>>

\* The row UserExerciseLog.objects.create inserts (lines 602-613).
LogEntry(p) ==
    [exercise |-> req[p].exercise_id,
     recognized_text |-> req[p].recognized_text,
     similarity_score |-> req[p].similarity_score]

\* Lines 601-613: UserExerciseLog.objects.create.
ConfirmCreateLog(p) ==
    /\ pc[p] = "create_log"
    /\ logs' = logs (+) SetToBag({LogEntry(p)})
    /\ pc' = [pc EXCEPT ![p] = "save_usage"]
    /\ UNCHANGED <<is_active, name_ru, usage_count, aliases, req, loc, response, body,
                   accepted, confirmed, nrequests, lastRead, parsevars, scriptvars>>

\* The value exercise.save(update_fields=['usage_count']) writes (lines 616-617).
SavedUsageCount(p) == loc[p].usage_count + 1

\* Lines 615-623: the usage counter, then the test of the promotion
\* threshold; below it the view goes on to build its response.
ConfirmSaveUsage(p) ==
    /\ pc[p] = "save_usage"
    /\ usage_count' = [usage_count EXCEPT ![req[p].exercise_id] = SavedUsageCount(p)]
    /\ loc' = [loc EXCEPT ![p].usage_count = SavedUsageCount(p)]
    /\ pc' = [pc EXCEPT ![p] = IF Promotes(req[p]) THEN "check_alias" ELSE "serialize"]
    /\ UNCHANGED <<is_active, name_ru, aliases, logs, req, response, body, accepted,
                   confirmed, nrequests, lastRead, parsevars, scriptvars>>

\* Lines 624-628: existing_aliases.exists().
ConfirmCheckAlias(p) ==
    /\ pc[p] = "check_alias"
    /\ pc' = [pc EXCEPT ![p] =
                IF ExistingAliases(req[p].exercise_id,
                                   normalize_text(req[p].recognized_text)) = {}
                THEN "create_alias" ELSE "load_alias"]
    /\ UNCHANGED <<dbvars, req, loc, response, body, accepted, confirmed, nrequests,
                   lastRead, parsevars, scriptvars>>

\* A faulty variant of PromotedAlias: match_count left at the field's default.
PromotedAliasDefaultCount(p) ==
    [exercise |-> req[p].exercise_id,
     alias |-> normalize_text(req[p].recognized_text),
     match_count |-> 0]

\* The row ExerciseAlias.objects.create inserts (lines 630-634).
PromotedAlias(p) ==
    [exercise |-> req[p].exercise_id,
     alias |-> normalize_text(req[p].recognized_text),
     match_count |-> 1]

\* Lines 629-634: the INSERT; a uniqueness violation raises out of the view,
\* otherwise the view goes on to build its response.
ConfirmCreateAlias(p) ==
    /\ pc[p] = "create_alias"
    /\ IF UniqueViolation(PromotedAlias(p).exercise, PromotedAlias(p).alias)
       THEN /\ Finish(p, 500, NoData)
            /\ UNCHANGED aliases
       ELSE /\ aliases' = Append(aliases, PromotedAlias(p))
            /\ pc' = [pc EXCEPT ![p] = "serialize"]
            /\ UNCHANGED <<req, loc, response, body, confirmed>>
    /\ UNCHANGED <<is_active, name_ru, usage_count, logs, accepted, nrequests, lastRead,
                   parsevars, scriptvars>>

\* Line 637: existing_aliases.first(), the query run again in Meta.ordering.
ConfirmLoadAlias(p) ==
    /\ pc[p] = "load_alias"
    /\ LET rows == AliasRows(ExistingAliases(req[p].exercise_id,
                                             normalize_text(req[p].recognized_text)))
       IN  IF rows = <<>>
           THEN Finish(p, 500, NoData)
           ELSE /\ pc' = [pc EXCEPT ![p] = "save_alias"]
                /\ loc' = [loc EXCEPT ![p].alias_pk = rows[1],
                                      ![p].match_count = aliases[rows[1]].match_count]
                /\ UNCHANGED <<req, response, body, confirmed, scriptvars>>
    /\ UNCHANGED <<dbvars, accepted, nrequests, lastRead, parsevars, scriptvars>>

\* The value alias.save(update_fields=['match_count']) writes (lines 638-639).
SavedMatchCount(p) == loc[p].match_count + 1

\* Lines 638-639: the match counter of the alias; the view goes on to build
\* its response.
ConfirmSaveAlias(p) ==
    /\ pc[p] = "save_alias"
    /\ aliases' = [aliases EXCEPT ![loc[p].alias_pk].match_count = SavedMatchCount(p)]
    /\ pc' = [pc EXCEPT ![p] = "serialize"]
    /\ UNCHANGED <<is_active, name_ru, usage_count, logs, req, loc, response, body,
                   accepted, confirmed, nrequests, lastRead, parsevars, scriptvars>>

\* ExerciseAliasSerializer(many=True) on exercise.aliases: the SELECT on
\* exercise_aliases in Meta.ordering, each row as fields id, alias, match_count.
SerializedAliases(rows) ==
    [i \in 1..Len(rows) |-> [id |-> rows[i], alias |-> aliases[rows[i]].alias,
                             match_count |-> aliases[rows[i]].match_count]]

\* ExerciseSerializer(exercise).data, the fields a request can change: the
\* usage_count of the instance the view holds and the alias rows selected now.
ExerciseData(p) ==
    [usage_count |-> loc[p].usage_count,
     aliases |-> SerializedAliases(AliasRows(AliasesOf(req[p].exercise_id)))]

\* Lines 641-645: the response; serializing the exercise reads its aliases.
ConfirmRespond(p) ==
    /\ pc[p] = "serialize"
    /\ Finish(p, 201, ExerciseData(p))
    /\ UNCHANGED <<dbvars, accepted, nrequests, lastRead, parsevars, scriptvars>>

(***************************************************************************)
(* The scripts that write the catalog beside the views: the management     *)
(* command add_exercise_aliases and the translation scripts.  Each ORM     *)
(* call is one statement of its own on the store.                          *)
(***************************************************************************)

\* Command.ALIASES in the alphabet of the catalog: the name of an exercise
\* and the aliases to give it, all in lower case, in the order of the dict.
ALIASES ==
    <<[exercise_name |-> <<"A", "b">>, aliases |-> << <<"a", "b">>, <<"b">> >>],
      [exercise_name |-> <<"a", "b", "b">>, aliases |-> << <<"b">> >>]>>

NoCommand == [at |-> "idle", entry |-> 0, alias |-> 0, exercise |-> ""]

\* The command goes on to the next entry of ALIASES, or ends.
NextEntry(entry) ==
    IF entry < Len(ALIASES) THEN [NoCommand EXCEPT !.at = "get", !.entry = entry + 1]
    ELSE [NoCommand EXCEPT !.at = "done"]

\* The command goes on to the next alias of its entry, or to the next entry.
NextAlias(c) ==
    IF c.alias < Len(ALIASES[c.entry].aliases)
    THEN [c EXCEPT !.at = "exists", !.alias = @ + 1]
    ELSE NextEntry(c.entry)

\* The alias string the command is at.
CommandAlias == ALIASES[cmd.entry].aliases[cmd.alias]

\* Command.handle, Exercise.objects.get(name=exercise_name, is_active=True):
\* DoesNotExist is caught and the entry skipped, MultipleObjectsReturned is
\* not caught.
AddAliasesGetExercise ==
    /\ cmd.at \in {"idle", "get"}
    /\ cmd' =
          LET Got(entry, found) ==
                  IF found = {} THEN NextEntry(entry)
                  ELSE IF Cardinality(found) > 1 THEN [NoCommand EXCEPT !.at = "failed"]
                  ELSE NextAlias([at |-> "get", entry |-> entry, alias |-> 0,
                                  exercise |-> CHOOSE e \in found : TRUE])
              Get(entry) ==
                  Got(entry, {e \in ExerciseIds :
                                 /\ Catalog[e].name = ALIASES[entry].exercise_name
                                 /\ is_active[e]})
          IN  Get(IF cmd.at = "idle" THEN 1 ELSE cmd.entry)
    /\ UNCHANGED <<dbvars, confirmvars, lastRead, parsevars, tr>>

\* ExerciseAlias.objects.filter(exercise=exercise, alias=alias).exists():
\* the exact string.
AddAliasesExists ==
    /\ cmd.at = "exists"
    /\ cmd' = IF \E k \in AliasesOf(cmd.exercise) : aliases[k].alias = CommandAlias
              THEN NextAlias(cmd)
              ELSE [cmd EXCEPT !.at = "create"]
    /\ UNCHANGED <<dbvars, confirmvars, lastRead, parsevars, tr>>

\* ExerciseAlias.objects.create(exercise, alias, match_count=0); a
\* uniqueness violation raises out of the command.
AddAliasesCreate ==
    /\ cmd.at = "create"
    /\ IF UniqueViolation(cmd.exercise, CommandAlias)
       THEN /\ cmd' = [NoCommand EXCEPT !.at = "failed"]
            /\ UNCHANGED aliases
       ELSE /\ aliases' = Append(aliases, [exercise |-> cmd.exercise,
                                           alias |-> CommandAlias,
                                           match_count |-> 0])
            /\ cmd' = NextAlias(cmd)
    /\ UNCHANGED <<is_active, name_ru, usage_count, logs, confirmvars, lastRead,
                   parsevars, tr>>

\* The exercises a translation script is run on and what the translation
\* service answers.
TranslatedIds == {"e1"}
TranslationInputs == {<<"ru_zh", "ru_i", "ru_m">>}

NoTranslation == [at |-> "idle", exercise |-> "", is_active |-> FALSE,
                  usage_count |-> 0]

\* The script loads the row of the exercise: Exercise.objects.get(id=...)
\* or a row of the list the script starts from.
TranslateLoad(e) ==
    /\ tr.at = "idle"
    /\ tr' = [at |-> "loaded", exercise |-> e, is_active |-> is_active[e],
              usage_count |-> usage_count[e]]
    /\ UNCHANGED <<dbvars, confirmvars, lastRead, parsevars, cmd>>

\* exercise.name_ru = translation; exercise.save(): the UPDATE writes every
\* column of the row from the instance loaded.
TranslateSave(translation) ==
    /\ tr.at = "loaded"
    /\ name_ru' = [name_ru EXCEPT ![tr.exercise] = translation]
    /\ usage_count' = [usage_count EXCEPT ![tr.exercise] = tr.usage_count]
    /\ is_active' = [is_active EXCEPT ![tr.exercise] = tr.is_active]
    /\ tr' = [NoTranslation EXCEPT !.at = "done"]
    /\ UNCHANGED <<aliases, logs, confirmvars, lastRead, parsevars, cmd>>

\* Exercise.objects.bulk_update(updated_exercises, ['name_ru']): the UPDATE
\* writes name_ru only.
TranslateBulkUpdate(translation) ==
    /\ tr.at = "loaded"
    /\ name_ru' = [name_ru EXCEPT ![tr.exercise] = translation]
    /\ tr' = [NoTranslation EXCEPT !.at = "done"]
    /\ UNCHANGED <<is_active, usage_count, aliases, logs, confirmvars, lastRead,
                   parsevars, cmd>>

(***************************************************************************)
(* The read-only endpoints                                                 *)
(***************************************************************************)

\* The request bodies of the read-only endpoints.
CategoryInputs == {NoCategory, "physical", "", "yoga"}
ConfidenceInputs == {None, Some(Rat(1, 2)), Some(Rat(3, 2))}
LanguageInputs == {"ru", "en"}
\* list_exercises_view passes limit=50.
SEARCH_LIMIT == 50

\* The body of a match or quick-match request; an absent field and an empty
\* string are both <<>>.
NoRequest == [text |-> <<>>, category |-> NoCategory, confidence |-> None,
              language |-> "ru", max_results |-> 3]

\* What a reader holds: the request, where it is in the view (at), the stage
\* of the quick matcher's narrowing, the rows and the alias strings its
\* statements returned, and the response once status is not 0.
NoRead == [op |-> "none", status |-> 0, at |-> "none", ids |-> <<>>,
           matches |-> <<>>, flag |-> FALSE, best |-> None, stage |-> 0,
           request |-> NoRequest, rows |-> <<>>, prefetched |-> <<>>]

\* The operation op has answered 200: the request served, the function
\* returned.
Returned(op) == lastRead.op = op /\ lastRead.status = 200

\* The exercise ids of a list of candidates, in order.
IdsOf(ms) == [i \in 1..Len(ms) |->
                IF "id" \in DOMAIN ms[i] THEN ms[i].id ELSE ms[i].exercise_id]

\* ExerciseMatchRequestSerializer.is_valid() on a JSON body: recognized_text
\* not blank once trimmed, category absent, null or one of the choices (the
\* empty string is not a choice), confidence (when given) in [0, 1].
MatchSerializerValid(text, category, confidence) ==
    /\ Strip(text) # <<>>
    /\ category = NoCategory \/ category \in CATEGORY_CHOICES
    /\ confidence # None => RGe(confidence[1], Zero) /\ RGe(One, confidence[1])

\* match_exercise_view: the response, from what the two statements of
\* find_matches returned.
MatchResponse(read) ==
    LET Body(matches, auto_match) ==
            [read EXCEPT !.status = 200, !.at = "done",
                         !.ids = IdsOf(matches), !.matches = matches,
                         !.flag = auto_match,
                         !.best = IF auto_match THEN Some(matches[1]) ELSE None]
        Matched(matches) ==
            Body(matches, matches # <<>>
                            /\ RGe(matches[1].score, AUTO_MATCH_THRESHOLD))
    IN  Matched(find_matches(Strip(read.request.text), read.rows, read.prefetched))

\* match_exercise_view, up to the first statement of find_matches.
MatchExercise(text, category, confidence) ==
    /\ lastRead.at = "none"
    /\ lastRead' =
          LET Served == [NoRead EXCEPT !.op = "match",
                                       !.request = [NoRequest EXCEPT !.text = text,
                                                       !.category = category,
                                                       !.confidence = confidence]]
          IN  IF ~MatchSerializerValid(text, category, confidence)
              THEN [Served EXCEPT !.status = 400, !.at = "done"]
              ELSE [Served EXCEPT !.at = "rows"]
    /\ UNCHANGED <<dbvars, confirmvars, parsevars, scriptvars>>

\* ExerciseMatcher.get_best_match, called on its own: the value returned.
BestMatchResponse(read) ==
    LET Body(best) ==
            [read EXCEPT !.status = 200, !.at = "done", !.best = best,
                         !.ids = IF best = None THEN <<>> ELSE IdsOf(best)]
    IN  Body(get_best_match(find_matches(read.request.text, read.rows,
                                         read.prefetched)))

\* ExerciseMatcher.get_best_match, up to the first statement of find_matches;
\* find_matches returns [] for an empty text before any statement.
GetBestMatch(text, category) ==
    /\ lastRead.at = "none"
    /\ lastRead' =
          LET Served == [NoRead EXCEPT !.op = "best_match",
                                       !.request = [NoRequest EXCEPT !.text = text,
                                                       !.category = category]]
          IN  IF text = <<>> THEN BestMatchResponse(Served)
              ELSE [Served EXCEPT !.at = "rows"]
    /\ UNCHANGED <<dbvars, confirmvars, parsevars, scriptvars>>

\* What the caller of find_matches makes of the list.
FindMatchesReturn(read) ==
    IF read.op = "match" THEN MatchResponse(read) ELSE BestMatchResponse(read)

\* ExerciseMatcher.find_matches, first statement: the exercise rows.  With no
\* row there is no second statement.
FindMatchesSelect ==
    /\ lastRead.op \in {"match", "best_match"} /\ lastRead.at = "rows"
    /\ lastRead' =
          LET Read(rows) ==
                  IF rows = <<>> THEN FindMatchesReturn(lastRead)
                  ELSE [lastRead EXCEPT !.rows = rows, !.at = "aliases"]
          IN  Read(MatchQuery(lastRead.request.category))
    /\ UNCHANGED <<dbvars, confirmvars, parsevars, scriptvars>>

\* ExerciseMatcher.find_matches, second statement (the aliases of the rows
\* read), then the loop over the rows.
FindMatchesPrefetch ==
    /\ lastRead.op \in {"match", "best_match"} /\ lastRead.at = "aliases"
    /\ lastRead' = FindMatchesReturn(
                       [lastRead EXCEPT !.prefetched = PrefetchAliases(lastRead.rows)])
    /\ UNCHANGED <<dbvars, confirmvars, parsevars, scriptvars>>

\* The language the quick-match view passes on.
QuickLanguage(language) == IF language \in {"ru", "en"} THEN language ELSE "ru"

\* quick_match_exercise_view: the response, from what the statements of
\* QuickExerciseMatcher.find_matches returned.
QuickMatchResponse(read) ==
    LET Body(matches) ==
            [read EXCEPT !.status = 200, !.at = "done",
                         !.ids = IdsOf(matches), !.matches = matches,
                         !.flag = matches # <<>>
                                   /\ RGe(matches[1].score, QUICK_EXACT_THRESHOLD)]
    IN  Body(quick_find_matches(Strip(read.request.text),
                                QuickLanguage(read.request.language),
                                Min(read.request.max_results, QUICK_MAX_RESULTS),
                                read.rows, read.prefetched))

\* quick_match_exercise_view, up to the first statement of find_matches.
QuickMatchExercise(rawtext, language, requested) ==
    /\ lastRead.at = "none"
    /\ lastRead' =
          LET Served == [NoRead EXCEPT !.op = "quick_match",
                                       !.request = [NoRequest EXCEPT !.text = rawtext,
                                                       !.language = language,
                                                       !.max_results = requested]]
          IN  IF Strip(rawtext) = <<>>
              THEN [Served EXCEPT !.status = 400, !.at = "done"]
              ELSE [Served EXCEPT !.at = "exists1", !.stage = 1]
    /\ UNCHANGED <<dbvars, confirmvars, parsevars, scriptvars>>

\* exercises.exists() for the queryset the reader holds, as the store answers
\* it now.
QuickExists(read) ==
    QuickQuery(read.stage, Strip(read.request.text),
               QuickLanguage(read.request.language)) # <<>>

\* QuickExerciseMatcher.find_matches, the first "if not exercises.exists()":
\* the name query, replaced by the wider query when it has no row.
QuickExistsFirst ==
    /\ lastRead.op = "quick_match" /\ lastRead.at = "exists1"
    /\ lastRead' = [lastRead EXCEPT !.at = "exists2",
                                    !.stage = IF QuickExists(lastRead) THEN 1 ELSE 2]
    /\ UNCHANGED <<dbvars, confirmvars, parsevars, scriptvars>>

\* The second "if not exercises.exists()": the queryset held, replaced by
\* the scan of the active rows when it has no row.
QuickExistsSecond ==
    /\ lastRead.op = "quick_match" /\ lastRead.at = "exists2"
    /\ lastRead' = [lastRead EXCEPT !.at = "rows",
                                    !.stage = IF QuickExists(lastRead) THEN @ ELSE 3]
    /\ UNCHANGED <<dbvars, confirmvars, parsevars, scriptvars>>

\* The loop "for exercise in exercises", first statement: the exercise rows
\* of the queryset held.  With no row there is no second statement.
QuickSelect ==
    /\ lastRead.op = "quick_match" /\ lastRead.at = "rows"
    /\ lastRead' =
          LET Read(rows) ==
                  IF rows = <<>> THEN QuickMatchResponse(lastRead)
                  ELSE [lastRead EXCEPT !.rows = rows, !.at = "aliases"]
          IN  Read(QuickQuery(lastRead.stage, Strip(lastRead.request.text),
                              QuickLanguage(lastRead.request.language)))
    /\ UNCHANGED <<dbvars, confirmvars, parsevars, scriptvars>>

\* Second statement (the aliases of the rows read), then the loop.
QuickPrefetch ==
    /\ lastRead.op = "quick_match" /\ lastRead.at = "aliases"
    /\ lastRead' = QuickMatchResponse(
                       [lastRead EXCEPT !.prefetched = PrefetchAliases(lastRead.rows)])
    /\ UNCHANGED <<dbvars, confirmvars, parsevars, scriptvars>>

\* list_exercises_view.
ListResponse(query, category, difficulty) ==
    LET Body(rows) ==
            [NoRead EXCEPT !.op = "list", !.status = 200, !.at = "done",
                           !.ids = IdsOf(rows), !.matches = rows]
    IN  Body(search_exercises(query, category, difficulty, SEARCH_LIMIT))

ListExercises(query, category, difficulty) ==
    /\ lastRead.at = "none"
    /\ lastRead' = ListResponse(query, category, difficulty)
    /\ UNCHANGED <<dbvars, confirmvars, parsevars, scriptvars>>

(***************************************************************************)
(* ExerciseParser.parse, stage by stage                                    *)
(***************************************************************************)

\* Groups after the colon in the generated commands.
MaxGroups == 2

NameParts == {<<>>, <<"zhim">>, <<"ZHIM", " ", "lezha">>}
CountParts == {<<"0">>, <<"2">>, <<"tri">>}
MarkerParts == {<<" ", "podhoda">>, <<" ", "podhoda", ":">>,
                <<" ", "set", " ", ":">>, <<"podhoda">>}
GroupParts ==
    {<<"2", " ", "iz", " ", "nih", " ", "4", " ", "raza", " ", "po", " ", "4", "0", "kg">>,
     <<"odin", " ", "4", " ", "raza", " ", "po", " ", "5", "0", "kg">>,
     <<"0", " ", "podhoda", " ", "4", " ", "raz", " ", "5", " ", "kg">>,
     <<"1", " ", "0", " ", "raz", " ", "2", ".", "5", "kg">>,
     <<"po", " ", "1", "0", " ", "raz">>,
     <<"0", "kg", " ", "5", " ", "raz">>,
     <<"musor">>}

\* Up to n groups joined by " i ".
RECURSIVE GroupTails(_)
GroupTails(n) ==
    IF n = 0 THEN {<<>>}
    ELSE {<<>>} \cup
         {g \o (IF t = <<>> THEN <<>> ELSE <<" ", "i", " ">> \o t) :
            g \in GroupParts, t \in GroupTails(n - 1)}

\* The commands given to the parser.
ParserInputs ==
    {n \o (IF n = <<>> THEN <<>> ELSE <<" ">>) \o c \o m
       \o (IF t = <<>> THEN <<>> ELSE <<" ">> \o t) :
       n \in NameParts, c \in CountParts, m \in MarkerParts, t \in GroupTails(MaxGroups)}
    \cup {<<>>, <<" ">>, <<"musor">>, <<" ", "ZHIM", " ", "lezha", " ">>}

NoResult == [exercise_name |-> <<>>, sets |-> <<>>, raw_text |-> <<>>,
             is_structured |-> FALSE]

\* Lines 73-77: the complex pattern is tried first.
ParseComplex ==
    /\ pstage = "complex"
    /\ LET Try(text, complex_match) ==
               IF complex_match # None
               THEN /\ presult' = [exercise_name |-> complex_match[1].exercise_name,
                                   sets |-> complex_match[1].sets,
                                   raw_text |-> text, is_structured |-> TRUE]
                    /\ pstage' = "done_complex"
               ELSE /\ pstage' = "simple"
                    /\ UNCHANGED presult
       IN  Try(parse_normalize(ptext), parse_complex_pattern(parse_normalize(ptext)))
    /\ UNCHANGED <<ptext, dbvars, confirmvars, lastRead, scriptvars>>

\* Lines 81-85: then the simple pattern.
ParseSimple ==
    /\ pstage = "simple"
    /\ LET Try(text, simple_match) ==
               IF simple_match # None
               THEN /\ presult' = [exercise_name |-> simple_match[1].exercise_name,
                                   sets |-> simple_match[1].sets,
                                   raw_text |-> text, is_structured |-> TRUE]
                    /\ pstage' = "done_simple"
               ELSE /\ pstage' = "fallback"
                    /\ UNCHANGED presult
       IN  Try(parse_normalize(ptext), parse_simple_pattern(parse_normalize(ptext)))
    /\ UNCHANGED <<ptext, dbvars, confirmvars, lastRead, scriptvars>>

\* Lines 88-89: the whole text becomes the name.
ParseFallback ==
    /\ pstage = "fallback"
    /\ LET text == parse_normalize(ptext)
       IN  presult' = [exercise_name |-> text, sets |-> <<>>, raw_text |-> text,
                       is_structured |-> FALSE]
    /\ pstage' = "done_fallback"
    /\ UNCHANGED <<ptext, dbvars, confirmvars, lastRead, scriptvars>>

ParseDone == pstage \in {"done_complex", "done_simple", "done_fallback"}

\* The parser called as one read-only operation beside the endpoints.
ParseTextInputs ==
    {<<"zhim", " ", "2", " ", "podhoda">>, <<"musor">>}

ParseCommand(text) ==
    /\ lastRead.at = "none"
    /\ lastRead' = [NoRead EXCEPT !.op = "parse", !.status = 200, !.at = "done",
                                  !.best = Some(parse(text))]
    /\ UNCHANGED <<dbvars, confirmvars, parsevars, scriptvars>>

(***************************************************************************)
(* The number resolver, the scorers and the normalizers called on their    *)
(* own.  lastRead holds the call: op the function, matches its text        *)
(* arguments, ids the language, status 200 once it returned, best the      *)
(* value returned, flag whether the function was then applied to that      *)
(* value again.                                                            *)
(***************************************************************************)

\* The longest string given to a scorer or a normalizer, and the highest
\* number given to the resolver as a digit string.
MaxTextLen == 3
MaxNumber == 120

\* The strings of at most n characters of an alphabet.
RECURSIVE StringsUpTo(_, _)
StringsUpTo(alphabet, n) ==
    IF n = 0 THEN {<<>>}
    ELSE LET Longer(shorter) ==
                 shorter \cup {Append(t, c) : t \in shorter, c \in alphabet}
         IN  Longer(StringsUpTo(alphabet, n - 1))

\* str(n): the decimal digits of n.
RECURSIVE DecimalOf(_)
DecimalOf(n) ==
    LET digit == CHOOSE d \in DOMAIN DigitValue : DigitValue[d] = n % 10
    IN  IF n < 10 THEN <<digit>> ELSE Append(DecimalOf(n \div 10), digit)

\* Number words of 13, 14 and 16 to 19, which NUMBER_WORDS does not list.
UnlistedNumberWords ==
    [trinadcat |-> 13, chetyrnadcat |-> 14, shestnadcat |-> 16,
     semnadcat |-> 17, vosemnadcat |-> 18, devyatnadcat |-> 19]

\* The tokens given to _extract_number.
NumberTokens ==
    {DecimalOf(n) : n \in 0..MaxNumber}
    \cup {<<"0">> \o DecimalOf(n) : n \in 0..9}
    \cup {<<w>> : w \in DOMAIN NUMBER_WORDS \cup DOMAIN UnlistedNumberWords}
    \cup {<<>>, <<"TRI">>, <<" ", "dva", " ">>, <<" ", "7", " ">>, <<"musor">>,
          <<"5", "kg">>, <<"2", ".", "5">>, <<"dva", " ", "tri">>}

\* s repeated to n characters.
Repeated(s, n) == [i \in 1..n |-> s[((i - 1) % Len(s)) + 1]]

\* Texts around the length from which SequenceMatcher leaves the popular
\* characters of its second text out of b2j: one and two characters repeated
\* to one character less than that length and to that length, and a text of
\* that length followed by a character that occurs once.
LongTexts ==
    {Repeated(unit, n) : unit \in {<<"a">>, <<"a", "b">>},
                         n \in {AUTOJUNK_MIN_LEN - 1, AUTOJUNK_MIN_LEN}}
    \cup {Repeated(<<"a", "b">>, AUTOJUNK_MIN_LEN) \o <<"x">>}

\* The short texts scored against the long ones.
LongProbes == {<<"x", "a">>, <<"b", "a">>, <<"a", "b">>, <<"x", "a", "b">>}

\* The pairs with a long text: each probe before and after each long text,
\* and each text the heuristic applies to with itself.
LongPairs ==
    (LongProbes \X LongTexts) \cup (LongTexts \X LongProbes)
    \cup {<<t, t>> : t \in {l \in LongTexts : Len(l) >= AUTOJUNK_MIN_LEN}}

ScoredTexts == StringsUpTo({"a", "b", " "}, MaxTextLen)
NormalizedTexts ==
    StringsUpTo({"a", "B", "RU_I", " ", "!"}, MaxTextLen) \cup LongTexts

\* The calls to make: lastRead with status 0 and no value yet.
TextCalls ==
    {[NoRead EXCEPT !.op = "extract_number", !.matches = <<tok>>] :
        tok \in NumberTokens}
    \cup {[NoRead EXCEPT !.op = op, !.matches = <<t1, t2>>] :
            op \in {"similarity", "quick_similarity"},
            t1 \in ScoredTexts, t2 \in ScoredTexts}
    \cup {[NoRead EXCEPT !.op = op, !.matches = <<pair[1], pair[2]>>] :
            op \in {"similarity", "quick_similarity"}, pair \in LongPairs}
    \cup {[NoRead EXCEPT !.op = "normalize", !.matches = <<t>>] :
            t \in NormalizedTexts}
    \cup {[NoRead EXCEPT !.op = "quick_normalize", !.matches = <<t>>, !.ids = <<l>>] :
            t \in NormalizedTexts, l \in LanguageInputs}

ExtractNumber ==
    /\ lastRead.op = "extract_number" /\ lastRead.status = 0
    /\ lastRead' = [lastRead EXCEPT !.status = 200,
                                    !.best = Some(extract_number(lastRead.matches[1]))]
    /\ UNCHANGED <<dbvars, confirmvars, parsevars, scriptvars>>

CalculateSimilarity ==
    /\ lastRead.op = "similarity" /\ lastRead.status = 0
    /\ lastRead' = [lastRead EXCEPT !.status = 200,
                        !.best = Some(calculate_similarity(lastRead.matches[1],
                                                           lastRead.matches[2]))]
    /\ UNCHANGED <<dbvars, confirmvars, parsevars, scriptvars>>

QuickCalculateSimilarity ==
    /\ lastRead.op = "quick_similarity" /\ lastRead.status = 0
    /\ lastRead' = [lastRead EXCEPT !.status = 200,
                        !.best = Some(quick_calculate_similarity(lastRead.matches[1],
                                                                 lastRead.matches[2]))]
    /\ UNCHANGED <<dbvars, confirmvars, parsevars, scriptvars>>

\* ExerciseMatcher.normalize_text on the text of the call.
NormalizeText ==
    /\ lastRead.op = "normalize" /\ lastRead.status = 0
    /\ lastRead' = [lastRead EXCEPT !.status = 200,
                                    !.best = Some(normalize_text(lastRead.matches[1]))]
    /\ UNCHANGED <<dbvars, confirmvars, parsevars, scriptvars>>

\* ExerciseMatcher.normalize_text on the text it returned.
NormalizeTextAgain ==
    /\ lastRead.op = "normalize" /\ lastRead.status = 200 /\ ~lastRead.flag
    /\ lastRead' = [lastRead EXCEPT !.matches = <<lastRead.best[1]>>, !.flag = TRUE,
                                    !.best = Some(normalize_text(lastRead.best[1]))]
    /\ UNCHANGED <<dbvars, confirmvars, parsevars, scriptvars>>

\* QuickExerciseMatcher.normalize_text on the text of the call.
QuickNormalizeText ==
    /\ lastRead.op = "quick_normalize" /\ lastRead.status = 0
    /\ lastRead' = [lastRead EXCEPT !.status = 200,
                        !.best = Some(quick_normalize_text(lastRead.matches[1],
                                                           lastRead.ids[1]))]
    /\ UNCHANGED <<dbvars, confirmvars, parsevars, scriptvars>>

\* QuickExerciseMatcher.normalize_text on the text it returned, same language.
QuickNormalizeTextAgain ==
    /\ lastRead.op = "quick_normalize" /\ lastRead.status = 200 /\ ~lastRead.flag
    /\ lastRead' = [lastRead EXCEPT !.matches = <<lastRead.best[1]>>, !.flag = TRUE,
                        !.best = Some(quick_normalize_text(lastRead.best[1],
                                                           lastRead.ids[1]))]
    /\ UNCHANGED <<dbvars, confirmvars, parsevars, scriptvars>>

(***************************************************************************)
(* Specifications                                                          *)
(***************************************************************************)

\* The workers at rest, no read and no parse under way.
Quiet ==
    /\ pc = [p \in Procs |-> "idle"]
    /\ req = [p \in Procs |-> NoReq]
    /\ loc = [p \in Procs |-> NoLoc]
    /\ response = [p \in Procs |-> 0]
    /\ body = [p \in Procs |-> NoData]
    /\ accepted = [e \in ExerciseIds |-> 0]
    /\ confirmed = [e \in ExerciseIds |-> 0]
    /\ nrequests = 0
    /\ lastRead = NoRead
    /\ cmd = NoCommand
    /\ tr = NoTranslation

\* The confirm endpoint served by concurrent workers.
Init ==
    /\ is_active \in {f \in [ExerciseIds -> BOOLEAN] :
                         \A e \in ExerciseIds \ {"e3"} : f[e]}
    /\ name_ru = [e \in ExerciseIds |-> Catalog[e].name_ru]
    /\ usage_count = [e \in ExerciseIds |-> 0]
    /\ aliases = SeedAliases
    /\ logs = EmptyBag
    /\ Quiet
    /\ ptext = <<>>
    /\ pstage = "idle"
    /\ presult = NoResult

ConfirmRequests ==
    [exercise_id : ConfirmIdInputs, recognized_text : ConfirmTextInputs,
     similarity_score : ConfirmScoreInputs]

Next ==
    \E p \in Procs :
        \/ \E data \in ConfirmRequests : ConfirmReceive(p, data)
        \/ ConfirmCreateLog(p)
        \/ ConfirmSaveUsage(p)
        \/ ConfirmCheckAlias(p)
        \/ ConfirmCreateAlias(p)
        \/ ConfirmLoadAlias(p)
        \/ ConfirmSaveAlias(p)
        \/ ConfirmRespond(p)

Spec == Init /\ [][Next]_vars

\* The confirm endpoint serving one request at a time: a request is received
\* only when no worker is inside the view.
SeqReceive(p, data) ==
    /\ \A q \in Procs : pc[q] = "idle"
    /\ ConfirmReceive(p, data)

\* The requests served one at a time: those above, and requests on e1 whose
\* text is punctuation only.
SeqRequests ==
    ConfirmRequests
    \cup [exercise_id : {"e1"}, recognized_text : {<<"!">>},
          similarity_score : ConfirmScoreInputs]

SeqNext ==
    \E p \in Procs :
        \/ \E data \in SeqRequests : SeqReceive(p, data)
        \/ ConfirmCreateLog(p)
        \/ ConfirmSaveUsage(p)
        \/ ConfirmCheckAlias(p)
        \/ ConfirmCreateAlias(p)
        \/ ConfirmLoadAlias(p)
        \/ ConfirmSaveAlias(p)
        \/ ConfirmRespond(p)

SeqSpec == Init /\ [][SeqNext]_vars

\* Every process on one store: one reader (a read-only request served
\* statement by statement, or a parse), one confirm request by worker w1,
\* the alias command and a translation script, interleaved between
\* statements.  The confirm requests:
ReadConfirmRequests ==
    [exercise_id : {"e1"}, recognized_text : {<<"B", "!">>, <<"a", "b">>},
     similarity_score : {Some(Rat(7, 10))}]

\* The requests of the reader.
QueryTextInputs == {<<"B", "!">>, <<" ">>}
BestMatchTextInputs == {<<"B", "!">>, <<>>}
QuickTextInputs == {<<"a", "b">>, <<"a", "x">>, <<" ">>}
SearchQueryInputs == {<<>>, <<"a", "b">>}

\* confirm_exercise_view entered by worker w1, for one request.
ReadReceive(data) ==
    /\ nrequests = 0
    /\ ConfirmReceive("w1", data)

ReadInit ==
    /\ is_active \in {f \in [ExerciseIds -> BOOLEAN] :
                         \A e \in ExerciseIds \ {"e2"} : f[e]}
    /\ name_ru = [e \in ExerciseIds |-> Catalog[e].name_ru]
    /\ usage_count = [e \in ExerciseIds |-> 0]
    /\ aliases = SeedAliases
    /\ logs = EmptyBag
    /\ Quiet
    /\ ptext = <<>>
    /\ pstage = "idle"
    /\ presult = NoResult

ReadNext ==
    \/ \E t \in QueryTextInputs, c \in CategoryInputs : MatchExercise(t, c, None)
    \/ \E t \in BestMatchTextInputs : GetBestMatch(t, NoCategory)
    \/ FindMatchesSelect
    \/ FindMatchesPrefetch
    \/ \E t \in QuickTextInputs, l \in LanguageInputs : QuickMatchExercise(t, l, 3)
    \/ QuickExistsFirst
    \/ QuickExistsSecond
    \/ QuickSelect
    \/ QuickPrefetch
    \/ \E q \in SearchQueryInputs : ListExercises(q, NoCategory, NoCategory)
    \/ \E t \in ParseTextInputs : ParseCommand(t)
    \/ \E data \in ReadConfirmRequests : ReadReceive(data)
    \/ ConfirmCreateLog("w1")
    \/ ConfirmSaveUsage("w1")
    \/ ConfirmCheckAlias("w1")
    \/ ConfirmCreateAlias("w1")
    \/ ConfirmLoadAlias("w1")
    \/ ConfirmSaveAlias("w1")
    \/ ConfirmRespond("w1")
    \/ AddAliasesGetExercise
    \/ AddAliasesExists
    \/ AddAliasesCreate
    \/ \E e \in TranslatedIds : TranslateLoad(e)
    \/ \E t \in TranslationInputs : TranslateSave(t)
    \/ \E t \in TranslationInputs : TranslateBulkUpdate(t)

ReadSpec == ReadInit /\ [][ReadNext]_vars

\* The parser alone, on every generated command.
ParseInit ==
    /\ is_active = [e \in ExerciseIds |-> TRUE]
    /\ name_ru = [e \in ExerciseIds |-> Catalog[e].name_ru]
    /\ usage_count = [e \in ExerciseIds |-> 0]
    /\ aliases = SeedAliases
    /\ logs = EmptyBag
    /\ Quiet
    /\ ptext \in ParserInputs
    /\ pstage = "complex"
    /\ presult = NoResult

ParseNext == ParseComplex \/ ParseSimple \/ ParseFallback

ParseSpec == ParseInit /\ [][ParseNext]_vars

\* The resolver, the scorers and the normalizers alone, on generated texts.
TextInit ==
    /\ is_active = [e \in ExerciseIds |-> TRUE]
    /\ name_ru = [e \in ExerciseIds |-> Catalog[e].name_ru]
    /\ usage_count = [e \in ExerciseIds |-> 0]
    /\ aliases = SeedAliases
    /\ logs = EmptyBag
    /\ pc = [p \in Procs |-> "idle"]
    /\ req = [p \in Procs |-> NoReq]
    /\ loc = [p \in Procs |-> NoLoc]
    /\ response = [p \in Procs |-> 0]
    /\ body = [p \in Procs |-> NoData]
    /\ accepted = [e \in ExerciseIds |-> 0]
    /\ confirmed = [e \in ExerciseIds |-> 0]
    /\ nrequests = 0
    /\ lastRead \in TextCalls
    /\ cmd = NoCommand
    /\ tr = NoTranslation
    /\ ptext = <<>>
    /\ pstage = "idle"
    /\ presult = NoResult

TextNext ==
    \/ ExtractNumber
    \/ CalculateSimilarity
    \/ QuickCalculateSimilarity
    \/ NormalizeText
    \/ NormalizeTextAgain
    \/ QuickNormalizeText
    \/ QuickNormalizeTextAgain

TextSpec == TextInit /\ [][TextNext]_vars

\* The matching endpoints alone: one request, waiting in lastRead, is served
\* statement by statement on one of the stores, with no writer beside it.
MatchTextInputs ==
    {<<>>, <<" ">>, <<"!">>, <<"a", "b">>, <<"B", "!">>, <<"b">>, <<"x">>}
QuickMatchTextInputs ==
    {<<>>, <<" ">>, <<"!">>, <<"a">>, <<"ru_i">>, <<"a", "b">>, <<"b">>, <<"x">>,
     <<"ru_zh", "ru_i", "ru_m">>}
QuickLanguageInputs == {"ru", "en", "de"}
QuickMaxResultsInputs == {-1, 0, 1, 3, 6}

MatchUsageCounts ==
    {[e \in ExerciseIds |-> 0], [e \in ExerciseIds |-> IF e = "e3" THEN 2 ELSE 0],
     [e \in ExerciseIds |-> IF e = "e5" THEN 1 ELSE 0]}

MatchAliasStores ==
    {SeedAliases,
     Append(SeedAliases, [exercise |-> "e3", alias |-> <<"b">>, match_count |-> 1]),
     SeedAliases \o <<[exercise |-> "e3", alias |-> <<"x">>, match_count |-> 1],
                       [exercise |-> "e7", alias |-> <<"b">>, match_count |-> 1]>>}

MatchCalls ==
    {[NoRead EXCEPT !.op = "match",
                    !.request = [NoRequest EXCEPT !.text = t, !.category = c,
                                                  !.confidence = cf]] :
        t \in MatchTextInputs, c \in CategoryInputs, cf \in ConfidenceInputs}
    \cup {[NoRead EXCEPT !.op = "best_match",
                         !.request = [NoRequest EXCEPT !.text = t, !.category = c]] :
             t \in MatchTextInputs, c \in CategoryInputs}
    \cup {[NoRead EXCEPT !.op = "quick_match",
                         !.request = [NoRequest EXCEPT !.text = t, !.language = l,
                                                       !.max_results = n]] :
             t \in QuickMatchTextInputs, l \in QuickLanguageInputs,
             n \in QuickMaxResultsInputs}

MatchInit ==
    /\ is_active \in {f \in [ExerciseIds -> BOOLEAN] :
                         \A e \in ExerciseIds \ {"e3"} : f[e]}
    /\ name_ru = [e \in ExerciseIds |-> Catalog[e].name_ru]
    /\ usage_count \in MatchUsageCounts
    /\ aliases \in MatchAliasStores
    /\ logs = EmptyBag
    /\ pc = [p \in Procs |-> "idle"]
    /\ req = [p \in Procs |-> NoReq]
    /\ loc = [p \in Procs |-> NoLoc]
    /\ response = [p \in Procs |-> 0]
    /\ body = [p \in Procs |-> NoData]
    /\ accepted = [e \in ExerciseIds |-> 0]
    /\ confirmed = [e \in ExerciseIds |-> 0]
    /\ nrequests = 0
    /\ lastRead \in MatchCalls
    /\ cmd = NoCommand
    /\ tr = NoTranslation
    /\ ptext = <<>>
    /\ pstage = "idle"
    /\ presult = NoResult

\* The request waits to be served.
Waiting(op) == lastRead.op = op /\ lastRead.at = "none"

MatchNext ==
    \/ /\ Waiting("match")
       /\ MatchExercise(lastRead.request.text, lastRead.request.category,
                        lastRead.request.confidence)
    \/ /\ Waiting("best_match")
       /\ GetBestMatch(lastRead.request.text, lastRead.request.category)
    \/ /\ Waiting("quick_match")
       /\ QuickMatchExercise(lastRead.request.text, lastRead.request.language,
                             lastRead.request.max_results)
    \/ FindMatchesSelect
    \/ FindMatchesPrefetch
    \/ QuickExistsFirst
    \/ QuickExistsSecond
    \/ QuickSelect
    \/ QuickPrefetch

MatchSpec == MatchInit /\ [][MatchNext]_vars

(***************************************************************************)
(* Properties of the confirm endpoint                                      *)
(***************************************************************************)

AllIdle == \A p \in Procs : pc[p] = "idle"

\* The promotion threshold as the specification states it: 0.7.
HighScore(r) == r.similarity_score # None /\ RGe(r.similarity_score[1], Rat(7, 10))

\* The alias rows of exercise e equal, ignoring case, to the string n.
SameIgnoringCase(e, n) ==
    {k \in DOMAIN aliases : aliases[k].exercise = e /\ Lower(aliases[k].alias) = Lower(n)}

\* C1: once N confirm requests on an exercise have all been answered 201 and
\* no request is under way, the usage_count of the exercise is N higher than
\* at the start (0), whatever the interleaving of the requests.
C1_NoLostUpdate ==
    AllIdle =>
        \A e \in ExerciseIds :
            accepted[e] = confirmed[e] => usage_count[e] = confirmed[e]

\* C2: a confirm request whose creation of the alias meets the uniqueness
\* constraint (another request created the same alias after both passed the
\* existence check) still completes successfully, with status 201.
C2_UniqueViolationIsNoOp ==
    [][\A p \in Procs :
          (pc[p] \in {"create_alias", "serialize"} /\ pc'[p] = "idle") =>
              response'[p] = 201]_vars

\* The request of worker p promotes its text, as the specification states
\* the threshold, and takes a step of the view.
HighScoreStep(p) == pc[p] # "idle" /\ HighScore(req[p]) /\ pc'[p] # pc[p]

\* C3: with the requests served one after the other, a confirm request with
\* similarity_score >= 0.7 writes the alias table in exactly one step, the
\* one after which its response is built, and is then answered 201; in that
\* step, if the exercise has no alias equal, ignoring case, to the normalized
\* text, exactly one row (exercise, normalized text, match_count 1) is added;
\* otherwise no row is added and the match_count of that alias grows by 1.
C3_PromoteOnceThenCount ==
    [][\A p \in Procs :
          HighScoreStep(p) =>
              /\ pc'[p] = "idle" => pc[p] = "serialize" /\ response'[p] = 201
              /\ IF pc'[p] # "serialize" THEN aliases' = aliases
                 ELSE LET e == req[p].exercise_id
                          n == normalize_text(req[p].recognized_text)
                      IN  IF SameIgnoringCase(e, n) = {}
                          THEN aliases' = Append(aliases,
                                   [exercise |-> e, alias |-> n, match_count |-> 1])
                          ELSE \E k \in SameIgnoringCase(e, n) :
                                   aliases' = [aliases EXCEPT ![k].match_count = @ + 1]
      ]_vars

\* C3 happens: an alias created by promotion has been matched once more.
C3_Witness ==
    /\ AllIdle
    /\ \E k \in DOMAIN aliases :
          /\ k > Len(SeedAliases)
          /\ aliases[k].match_count = 2
          /\ \E p \in Procs :
                /\ response[p] = 201
                /\ \E i \in DOMAIN body[p].aliases :
                      body[p].aliases[i] = [id |-> k, alias |-> aliases[k].alias,
                                            match_count |-> 2]

\* C4: no exercise holds two alias rows with the same alias string, and an
\* alias created by promotion (a row after the seeded ones) is not equal,
\* ignoring case, to another alias of the same exercise.
C4_AliasesUnique ==
    \A j, k \in DOMAIN aliases :
        (j # k /\ aliases[j].exercise = aliases[k].exercise) =>
            /\ aliases[j].alias # aliases[k].alias
            /\ k > Len(SeedAliases) => Lower(aliases[j].alias) # Lower(aliases[k].alias)

\* C4 happens: two requests raced to create the same alias, one row was
\* created and the other INSERT was refused.
C4_Witness ==
    /\ Len(aliases) = Len(SeedAliases) + 1
    /\ \E p \in Procs : response[p] = 500

\* C5: a confirm request enters the writing part of the view only with valid
\* data naming an existing active exercise; a request answered 400 or 404
\* leaves the tables and every request under way as they were.
C5_RejectedBeforeAnyWrite ==
    [][\A p \in Procs :
          /\ (pc[p] = "idle" /\ pc'[p] # "idle") =>
                 /\ req'[p].exercise_id \in ExerciseIds
                 /\ is_active[req'[p].exercise_id]
                 /\ Strip(req'[p].recognized_text) # <<>>
          /\ (response'[p] \in {400, 404} /\ response'[p] # response[p]) =>
                 UNCHANGED <<dbvars, pc, req, loc, scriptvars>>
      ]_vars

\* C5 happens: one request failed validation, another named no active
\* exercise, and nothing was written.
C5_Witness ==
    /\ \E p, q \in Procs : response[p] = 400 /\ response[q] = 404
    /\ ~is_active["e3"]
    /\ logs = EmptyBag

\* The alias part of C6: no step of a confirm request whose similarity_score
\* is absent or below 0.7 changes the alias table, and the table changes only
\* in a step of a request whose similarity_score is at least 0.7.
LowScoreLeavesAliases ==
    [][/\ \A p \in Procs :
            (~HighScore(req[p]) /\ pc'[p] # pc[p]) => aliases' = aliases
       /\ aliases' # aliases => \E p \in Procs : HighScoreStep(p)
      ]_vars

\* C6: a confirm request whose similarity_score is absent or below 0.7
\* changes the alias table in none of its steps; after its log entry is
\* written it raises the usage_count of its exercise by 1 and goes on to be
\* answered 201; and the alias table changes only in a step of a request
\* whose similarity_score is at least 0.7.
C6_LowScoreLeavesAliases ==
    [][/\ \A p \in Procs :
            (~HighScore(req[p]) /\ pc'[p] # pc[p]) =>
                /\ aliases' = aliases
                /\ pc[p] = "save_usage" =>
                      /\ pc'[p] = "serialize"
                      /\ BagIn(LogEntry(p), logs)
                      /\ usage_count' =
                            [usage_count EXCEPT ![req[p].exercise_id] = @ + 1]
                /\ pc[p] = "serialize" => pc'[p] = "idle" /\ response'[p] = 201
       /\ aliases' # aliases => \E p \in Procs : HighScoreStep(p)
      ]_vars

\* C7: the usage_count of an exercise never decreases.
C7_UsageNeverDecreases ==
    [][\A e \in ExerciseIds : usage_count'[e] >= usage_count[e]]_vars

(***************************************************************************)
(* Properties of the read-only operations and of the parser                *)
(***************************************************************************)

\* C8: every exercise in a result of the full matcher, of get_best_match, of
\* the quick matcher (whatever stage gave its rows) and of exercise search
\* is active.
C8_NoInactiveInResults ==
    lastRead.op \in {"match", "best_match", "quick_match", "list"} =>
        \A i \in 1..Len(lastRead.ids) : is_active[lastRead.ids[i]]

\* C8 happens: the quick matcher answered from its second stage while an
\* exercise whose alias contains the text is inactive.
C8_Witness ==
    /\ Returned("quick_match")
    /\ lastRead.stage = 2
    /\ lastRead.ids # <<>>
    /\ ~is_active["e2"]

\* C9: a parse result with is_structured = true has at least one set.
C9_StructuredHasSets ==
    (ParseDone /\ presult.is_structured) => presult.sets # <<>>

\* C10: the sets of a parse result are numbered 1, 2, ..., N in list order.
C10_SetNumbersInOrder ==
    ParseDone =>
        \A k \in 1..Len(presult.sets) : presult.sets[k].set_number = k

\* C10 happens: the complex pattern gave the sets of two different groups.
C10_Witness ==
    /\ pstage = "done_complex"
    /\ Len(presult.sets) >= 3
    /\ \E i, j \in 1..Len(presult.sets) :
          presult.sets[i].weight_kg # presult.sets[j].weight_kg

(***************************************************************************)
(* Properties of the stages of ExerciseParser.parse                        *)
(***************************************************************************)

\* The text the parser works on.
ParsedText == parse_normalize(ptext)

\* Where the first "<count> <sets keyword> :" marker starts in t, 0 if none.
ComplexMarker(t) == Lowest({i \in 1..Len(t) : TotalSetsMarkerEnd(t, i) # 0})

\* The groups after the colon of the first marker of t.
ComplexGroups(t) ==
    LET After(i) == SplitGroups(Strip(Slice(t, TotalSetsMarkerEnd(t, i), Len(t))))
    IN  After(ComplexMarker(t))

\* What a group states: its count, reps and weight, the count being 0 for a
\* group that matches neither sub-pattern.
GroupStated(g) ==
    LET Of(m) ==
            IF m = None THEN [count |-> 0, reps |-> 0, weight |-> [n |-> 0, d |-> 1]]
            ELSE [count |-> extract_number(Slice(g, m[1].countFrom, m[1].countTo - 1)),
                  reps |-> extract_number(Slice(g, m[1].repsFrom, m[1].repsTo - 1)),
                  weight |-> FloatOf(Slice(g, m[1].weightFrom, m[1].weightTo - 1))]
    IN  Of(GroupMatch(g))

\* What the groups after the first marker of t state, in text order.
GroupsStated(t) ==
    LET Of(groups) == [k \in 1..Len(groups) |-> GroupStated(groups[k])]
    IN  Of(ComplexGroups(t))

\* The complex attempt fails: no marker, or no group emits a set.
ComplexFails(t) ==
    LET NoSets(stated) == \A k \in 1..Len(stated) : stated[k].count = 0
    IN  ComplexMarker(t) = 0 \/ NoSets(GroupsStated(t))

\* Where the first "<count> <sets keyword>" marker starts in t, 0 if none.
SimpleMarker(t) == Lowest({i \in 1..Len(t) : SetsMarkerEnd(t, i) # 0})

\* The simple attempt fails: no marker, or nothing but spaces before it.
SimpleFails(t) ==
    \/ SimpleMarker(t) = 0
    \/ Strip(Slice(t, 1, SimpleMarker(t) - 1)) = <<>>

\* C11: parse tries the complex pattern, then the simple pattern, then the
\* fallback, and returns the result of the first that succeeds: the simple
\* pattern is reached only when the complex attempt failed (no marker with a
\* colon, or no set emitted by any group), the fallback only when both
\* failed; the outcome is one of the three, and it is what parse returns for
\* the input.
C11_FirstStageThatSucceeds ==
    LET Holds(complexFails, simpleFails) ==
            /\ pstage \in {"complex", "simple", "fallback",
                           "done_complex", "done_simple", "done_fallback"}
            /\ pstage \in {"simple", "done_simple", "fallback", "done_fallback"} =>
                   complexFails
            /\ pstage \in {"fallback", "done_fallback"} => simpleFails
            /\ pstage = "done_complex" => ~complexFails /\ presult.is_structured
            /\ pstage = "done_simple" => ~simpleFails /\ presult.is_structured
            /\ pstage = "done_fallback" => ~presult.is_structured
            /\ ParseDone => presult = parse(ptext)
    IN  Holds(ComplexFails(ParsedText), SimpleFails(ParsedText))

\* C11 happens: the text holds a marker with a colon, no group after it gave
\* a set, and the simple pattern gave the result.
C11_Witness ==
    /\ pstage = "done_simple"
    /\ ComplexMarker(ParsedText) # 0
    /\ presult.sets # <<>>

\* C12: when neither the complex nor the simple pattern matches the
\* lower-cased, trimmed input, parse returns is_structured = false, no set and
\* that text as exercise_name; and a result with is_structured = false has no
\* set and the lower-cased, trimmed input as its name.
C12_FallbackIsWholeText ==
    ParseDone =>
        LET Holds(t) ==
                /\ (ComplexFails(t) /\ SimpleFails(t)) =>
                       /\ ~presult.is_structured
                       /\ presult.sets = <<>>
                       /\ presult.exercise_name = t
                /\ ~presult.is_structured =>
                       /\ presult.sets = <<>>
                       /\ presult.exercise_name = t
                       /\ pstage = "done_fallback"
        IN  Holds(Strip(LowerText(ptext)))

\* C12 happens: a text with capitals and spaces around it, matching no
\* pattern, came back lower-cased and trimmed.
C12_Witness ==
    /\ pstage = "done_fallback"
    /\ presult.exercise_name # <<>>
    /\ presult.exercise_name # ptext
    /\ presult.exercise_name # Strip(ptext)

\* The number of sets the groups before the k-th state.
RECURSIVE SetsBefore(_, _)
SetsBefore(stated, k) ==
    IF k <= 1 THEN 0
    ELSE SetsBefore(stated, k - 1) + stated[k - 1].count

\* "tri podhoda: 2 iz nih 4 raza po 40kg i odin 4 raza po 50kg".
ComplexExample ==
    <<"tri", " ", "podhoda", ":", " ",
      "2", " ", "iz", " ", "nih", " ", "4", " ", "raza", " ", "po", " ", "4", "0", "kg",
      " ", "i", " ",
      "odin", " ", "4", " ", "raza", " ", "po", " ", "5", "0", "kg">>

\* C13: in a result of the complex pattern the groups after the colon give
\* their sets in text order: the k-th group gives as many consecutive sets as
\* its count, each with the reps and the weight of that group, a group that
\* matches neither sub-pattern gives none and does not stop the groups after
\* it from giving theirs, and exercise_name is the trimmed text before the
\* marker; the example command gives three sets of 4 reps with weights 40,
\* 40 and 50.
C13_GroupsEmitTheirSets ==
    /\ pstage = "done_complex" =>
          LET Holds(t, stated) ==
                  /\ presult.exercise_name = Strip(Slice(t, 1, ComplexMarker(t) - 1))
                  /\ Len(presult.sets) = SetsBefore(stated, Len(stated) + 1)
                  /\ \A k \in 1..Len(stated) :
                        \A j \in 1..stated[k].count :
                           /\ presult.sets[SetsBefore(stated, k) + j].reps
                                 = stated[k].reps
                           /\ presult.sets[SetsBefore(stated, k) + j].weight_kg
                                 = stated[k].weight
          IN  Holds(ParsedText, GroupsStated(ParsedText))
    /\ (ParseDone /\ ~ComplexFails(ParsedText)) => pstage = "done_complex"
    /\ (ParseDone /\ ptext = ComplexExample) =>
          /\ pstage = "done_complex"
          /\ presult.sets =
                <<[set_number |-> 1, reps |-> 4, weight_kg |-> [n |-> 40, d |-> 1]],
                  [set_number |-> 2, reps |-> 4, weight_kg |-> [n |-> 40, d |-> 1]],
                  [set_number |-> 3, reps |-> 4, weight_kg |-> [n |-> 50, d |-> 1]]>>

\* C13 happens: a group that matches neither sub-pattern was passed over and
\* the group after it gave the sets of the result.
C13_Witness ==
    /\ pstage = "done_complex"
    /\ Len(GroupsStated(ParsedText)) = 2
    /\ GroupMatch(ComplexGroups(ParsedText)[1]) = None
    /\ presult.sets # <<>>
    /\ presult.exercise_name # <<>>

\* Where the first "<number> <reps keyword>" starts in t, 0 if none; the same
\* for the first "<decimal> <weight keyword>".
RepsAt(t) == Lowest({i \in 1..Len(t) : RepsEnd(t, i) # 0})
WeightAt(t) == Lowest({i \in 1..Len(t) : WeightEnd(t, i) # 0})

\* C14: a result of the simple pattern has as many sets as the count before
\* the sets keyword, numbered from 1 and otherwise identical; the name is the
\* non-empty trimmed text before the marker; every set carries the reps
\* found in the text (a positive number) and the weight found in the text (a
\* number that may be 0), and a quantity the text does not state is absent
\* from every set; a text with nothing before the marker, that the complex
\* pattern does not match either, gives the unstructured result.
C14_SimpleSetsCarryFound ==
    /\ pstage = "done_simple" =>
          LET Holds(t, m, r, w) ==
                  /\ presult.exercise_name = Strip(Slice(t, 1, m - 1))
                  /\ presult.exercise_name # <<>>
                  /\ Len(presult.sets)
                        = extract_number(Slice(t, m, NumEnd(t, m) - 1))
                  /\ \A k \in 1..Len(presult.sets) :
                        /\ presult.sets[k].set_number = k
                        /\ r = 0 => "reps" \notin DOMAIN presult.sets[k]
                        /\ (r # 0 /\ extract_number(Slice(t, r, NumEnd(t, r) - 1)) # 0) =>
                               /\ "reps" \in DOMAIN presult.sets[k]
                               /\ presult.sets[k].reps
                                     = extract_number(Slice(t, r, NumEnd(t, r) - 1))
                        /\ w = 0 => "weight_kg" \notin DOMAIN presult.sets[k]
                        /\ w # 0 =>
                               /\ "weight_kg" \in DOMAIN presult.sets[k]
                               /\ presult.sets[k].weight_kg
                                     = FloatOf(Slice(t, w, DecEnd(t, w) - 1))
          IN  Holds(ParsedText, SimpleMarker(ParsedText), RepsAt(ParsedText),
                    WeightAt(ParsedText))
    /\ (ParseDone /\ ComplexFails(ParsedText) /\ SimpleMarker(ParsedText) # 0
           /\ Strip(Slice(ParsedText, 1, SimpleMarker(ParsedText) - 1)) = <<>>) =>
          /\ pstage = "done_fallback"
          /\ ~presult.is_structured

\* C15: in every set of a parse result, reps, when present, is a positive
\* integer and weight_kg, when present, is not negative.
C15_RepsPositive ==
    ParseDone =>
        \A k \in 1..Len(presult.sets) :
            /\ "reps" \in DOMAIN presult.sets[k] => presult.sets[k].reps >= 1
            /\ "weight_kg" \in DOMAIN presult.sets[k] =>
                   /\ presult.sets[k].weight_kg.n >= 0
                   /\ presult.sets[k].weight_kg.d >= 1

(***************************************************************************)
(* Properties of the number resolver, the scorers and the normalizers      *)
(***************************************************************************)

\* The Russian number words of 1 to 20: the listed ones and those of 13, 14
\* and 16 to 19.
RussianNumberWords == NUMBER_WORDS @@ UnlistedNumberWords

\* C16: the number resolver gives a digit string its integer value, the
\* Russian number word of each integer from 1 to 20 that integer, and 0 to
\* every other token (the token being lower-cased and trimmed first).
C16_NumberResolver ==
    Returned("extract_number") =>
        LET Resolves(t, value) ==
                /\ \A n \in 0..MaxNumber :
                      t \in {DecimalOf(n), <<"0">> \o DecimalOf(n)} => value = n
                /\ \A w \in DOMAIN RussianNumberWords :
                      t = <<w>> => value = RussianNumberWords[w]
                /\ (/\ ~(t # <<>> /\ \A k \in 1..Len(t) : IsDigit(t[k]))
                    /\ ~(Len(t) = 1 /\ t[1] \in DOMAIN RussianNumberWords)) =>
                      value = 0
        IN  Resolves(Strip(LowerText(lastRead.matches[1])), lastRead.best[1])

\* C17: the similarity the full scorer and the quick scorer return lies
\* between 0 and 1, whatever the two texts.
C17_SimilarityInUnitInterval ==
    (Returned("similarity") \/ Returned("quick_similarity")) =>
        /\ FGe(lastRead.best[1], FZero)
        /\ FGe(FOne, lastRead.best[1])

\* C17 happens: the full scorer was given two different texts that normalize
\* to the same one, where ratio and bonuses add up to 1.15, and returned 1.
C17_Witness ==
    /\ Returned("similarity")
    /\ lastRead.matches = <<(<<" ", "a", "b">>), (<<"a", "b", " ">>)>>
    /\ lastRead.best = Some(FOne)

\* C18: when one of the two texts is empty after normalization, the full
\* scorer returns 0; when one of the two normalized texts it is given is
\* empty, the quick scorer returns 0.
C18_EmptyScoresZero ==
    /\ (/\ Returned("similarity")
        /\ \/ normalize_text(lastRead.matches[1]) = <<>>
           \/ normalize_text(lastRead.matches[2]) = <<>>) =>
           lastRead.best[1] = FZero
    /\ (/\ Returned("quick_similarity")
        /\ \/ lastRead.matches[1] = <<>>
           \/ lastRead.matches[2] = <<>>) =>
           lastRead.best[1] = FZero

\* The texts the normalizers return on the generated texts.
FullNormalizerOutputs == {normalize_text(t) : t \in NormalizedTexts}
QuickNormalizerOutputs ==
    {quick_normalize_text(t, l) : t \in NormalizedTexts, l \in LanguageInputs}

\* C19: a non-empty text that the normalizer of a scorer returns, scored
\* against itself by that scorer, gives exactly 1.
C19_SelfSimilarityIsOne ==
    /\ (/\ Returned("similarity")
        /\ lastRead.matches[1] = lastRead.matches[2]
        /\ lastRead.matches[1] # <<>>
        /\ lastRead.matches[1] \in FullNormalizerOutputs) =>
           lastRead.best[1] = FOne
    /\ (/\ Returned("quick_similarity")
        /\ lastRead.matches[1] = lastRead.matches[2]
        /\ lastRead.matches[1] # <<>>
        /\ lastRead.matches[1] \in QuickNormalizerOutputs) =>
           lastRead.best[1] = FOne

\* A text is trimmed and holds no two spaces in a row.
TrimmedSingleSpaced(t) ==
    /\ t # <<>> => t[1] \notin SpaceChars /\ t[Len(t)] \notin SpaceChars
    /\ \A i \in 1..(Len(t) - 1) : ~(t[i] \in SpaceChars /\ t[i + 1] \in SpaceChars)

\* C20: what a normalizer returns is trimmed, with no two spaces in a row, and
\* the normalizer applied to it (the quick one with the same language)
\* returns it unchanged.
C20_NormalizeIdempotent ==
    (Returned("normalize") \/ Returned("quick_normalize")) =>
        /\ TrimmedSingleSpaced(lastRead.best[1])
        /\ lastRead.flag => lastRead.best[1] = lastRead.matches[1]

(***************************************************************************)
(* Properties of the matching endpoints                                    *)
(***************************************************************************)

\* The greatest of a non-empty set of scores.
Highest(scores) == CHOOSE x \in scores : \A y \in scores : FGe(x, y)

\* The score of exercise e for the normalized query t in the full matcher:
\* the best of its name and its aliases.
FullScore(t, e) ==
    Highest({calculate_similarity(t, Catalog[e].name)}
            \cup {calculate_similarity(t, aliases[k].alias) : k \in AliasesOf(e)})

\* The active exercises, of category c when one is given, whose score for the
\* normalized query t reaches the bar.
FullQualified(t, c, bar) ==
    {e \in ExerciseIds :
        /\ is_active[e]
        /\ (c # NoCategory => Catalog[e].category = c)
        /\ FGe(FullScore(t, e), bar)}

\* The list ms ranks the exercises of the set qualified: one candidate each,
\* at most cap of them, the reported score of each from reported, descending,
\* equal scores in the order of the catalog, no exercise left out that would
\* come before one that is listed.
Ranked(ms, id, qualified, cap, reported) ==
    /\ Len(ms) = Min(cap, Cardinality(qualified))
    /\ \A i \in 1..Len(ms) :
          /\ id[i] \in qualified
          /\ ms[i].score = reported[id[i]]
    /\ \A i, j \in 1..Len(ms) :
          i < j => /\ id[i] # id[j]
                   /\ RGe(ms[i].score, ms[j].score)
                   /\ ms[i].score = ms[j].score => ExerciseBefore(id[i], id[j])
    /\ \A e \in qualified :
          (\A i \in 1..Len(ms) : id[i] # e) =>
              \A i \in 1..Len(ms) :
                  \/ RGt(ms[i].score, reported[e])
                  \/ ms[i].score = reported[e] /\ ExerciseBefore(id[i], e)

\* C21: the list the full matcher returns holds one candidate for each of
\* the highest-scoring active exercises (of the category asked for, when one
\* is) whose best variant score is at least 0.5: at most 5 of them, by
\* descending reported score, equal scores in the order the catalog is
\* iterated in.
C21_FindMatchesRanked ==
    Returned("match") =>
        LET Holds(t, c) ==
                Ranked(lastRead.matches, lastRead.ids,
                       FullQualified(t, c, F05), 5,
                       [e \in ExerciseIds |-> Round3(FullScore(t, e))])
        IN  Holds(normalize_text(Strip(lastRead.request.text)),
                  lastRead.request.category)

\* C21 happens: six exercises qualify and five are returned, with two pairs
\* of equal scores, one of them ordered by usage_count against the names.
C21_Witness ==
    /\ Returned("match")
    /\ Len(lastRead.matches) = 5
    /\ Cardinality(FullQualified(normalize_text(Strip(lastRead.request.text)),
                                 lastRead.request.category, F05)) = 6
    /\ lastRead.matches[1].score = lastRead.matches[2].score
    /\ lastRead.matches[3].score = lastRead.matches[4].score
    /\ lastRead.ids[3] = "e5" /\ lastRead.ids[4] = "e4"

\* The top candidate of the list ms when its reported similarity is at least
\* 0.85, else None.
ConfidentTop(ms) ==
    IF ms # <<>> /\ RGe(ms[1].score, Rat(85, 100)) THEN Some(ms[1]) ELSE None

\* C22: get_best_match answers without an error, with the top candidate of
\* find_matches when the reported similarity of that candidate is at least
\* 0.85 and with None when there is no candidate or the top one is lower;
\* the match endpoint gives best_match by the same rule on its own list, and
\* auto_match is true exactly when best_match is not null.
C22_BestMatchIffConfident ==
    /\ lastRead.op = "best_match" /\ lastRead.status # 0 =>
          /\ lastRead.status = 200
          /\ LET Holds(ms) == lastRead.best = ConfidentTop(ms)
             IN  Holds(find_matches(lastRead.request.text, lastRead.rows,
                                    lastRead.prefetched))
    /\ Returned("match") =>
          /\ lastRead.best = ConfidentTop(lastRead.matches)
          /\ lastRead.flag <=> lastRead.best # None

\* C22 happens: find_matches has candidates, the top one is below 0.85 and
\* get_best_match returned None.
C22_Witness ==
    /\ Returned("best_match")
    /\ lastRead.best = None
    /\ find_matches(lastRead.request.text, lastRead.rows, lastRead.prefetched) # <<>>

\* The list ms is in descending order of reported similarity.
Descending(ms) ==
    \A i, j \in 1..Len(ms) : i < j => RGe(ms[i].score, ms[j].score)

\* C23: the list a quick-match request is answered with has at most
\* min(max_results, 5) entries (none when that is below 0), every entry has
\* a similarity of at least 0.5 and the entries are in descending order of
\* similarity, whatever max_results the request asks for.
C23_QuickListBounded ==
    Returned("quick_match") =>
        /\ Len(lastRead.matches) <= Max(0, Min(lastRead.request.max_results, 5))
        /\ \A i \in 1..Len(lastRead.matches) :
              RGe(lastRead.matches[i].score, Rat(1, 2))
        /\ Descending(lastRead.matches)

\* C24: the quick-match endpoint reports exact_match = true exactly when its
\* list is not empty and the similarity of the first candidate is at least 0.9.
C24_ExactIffTopHigh ==
    Returned("quick_match") =>
        (lastRead.flag <=>
            /\ lastRead.matches # <<>>
            /\ RGe(lastRead.matches[1].score, Rat(9, 10)))

\* C24 happens: the first candidate scores at least 0.75 and less than 0.9,
\* and exact_match is false.
C24_Witness ==
    /\ Returned("quick_match")
    /\ lastRead.matches # <<>>
    /\ RGe(lastRead.matches[1].score, Rat(3, 4))
    /\ ~lastRead.flag

\* The active exercises with a variant (name, name_ru or an alias) whose
\* normalized form scores at least 0.5 against the normalized text.
QuickMatching(text, language) ==
    LET Scores(t, variants) ==
            \E k \in 1..Len(variants) :
                FGe(quick_calculate_similarity(t, variants[k]), F05)
        Reaches(t, e) ==
            Scores(t, QuickVariants(ExerciseRow(e), AliasStrings(e), language))
        Among(t) == {e \in ExerciseIds : is_active[e] /\ Reaches(t, e)}
    IN  Among(quick_normalize_text(text, language))

\* C25: when an active exercise has a variant whose normalized form scores at
\* least 0.5 against the normalized query, a quick-match request for that
\* query that asks for at least one result is answered with a list that is
\* not empty, whatever stage of the narrowing gave the rows that were scored.
C25_NarrowingHidesNoMatch ==
    (/\ Returned("quick_match")
     /\ lastRead.request.max_results >= 1
     /\ QuickMatching(Strip(lastRead.request.text),
                      QuickLanguage(lastRead.request.language)) # {})
        => lastRead.matches # <<>>

\* The query the catalog is scored with when the request in lastRead is
\* accepted: the text as the view passes it on, normalized by the matcher.
ScoredQuery ==
    IF lastRead.op = "match"
    THEN normalize_text(Strip(lastRead.request.text))
    ELSE quick_normalize_text(Strip(lastRead.request.text),
                              QuickLanguage(lastRead.request.language))

\* The confidence of the request, when given, is outside [0, 1].
ConfidenceOutOfRange(r) ==
    r.confidence # None /\ ~(RGe(r.confidence[1], Zero) /\ RGe(One, r.confidence[1]))

\* C26: a match or quick-match request whose text is empty, blank or missing
\* is answered 400, and so is a match request whose confidence is outside
\* [0, 1]; a request that is accepted (answered 200, its catalog rows scored)
\* has a query that is not empty after normalization.
C26_NoEmptyQueryScored ==
    (lastRead.op \in {"match", "quick_match"} /\ lastRead.status # 0) =>
        /\ Strip(lastRead.request.text) = <<>> => lastRead.status = 400
        /\ (lastRead.op = "match" /\ ConfidenceOutOfRange(lastRead.request)) =>
               lastRead.status = 400
        /\ lastRead.status = 400 => lastRead.matches = <<>>
        /\ lastRead.status = 200 => ScoredQuery # <<>>

\* The numbers of candidates for thresholds 0.25, 0.5 (the one in force, the
\* list served), 0.75 and 1.0 do not grow.
NeverMore(atQuarter, served, atThreeQuarters, atOne) ==
    /\ Len(atQuarter) >= Len(served)
    /\ Len(served) >= Len(atThreeQuarters)
    /\ Len(atThreeQuarters) >= Len(atOne)

\* The lists of the full matcher for the request in lastRead, SUGGEST_THRESHOLD
\* set to 0.75 and to 1.0.
FullAtThreeQuarters ==
    find_matches_with(F075, Strip(lastRead.request.text), lastRead.rows,
                      lastRead.prefetched)
FullAtOne ==
    find_matches_with(FOne, Strip(lastRead.request.text), lastRead.rows,
                      lastRead.prefetched)

\* C27: for the request just answered and the store it was answered on, the
\* full matcher and the quick matcher return no more candidates with
\* SUGGEST_THRESHOLD raised: the counts for 0.25, 0.5, 0.75 and 1.0 never grow.
C27_ThresholdMonotonic ==
    /\ Returned("match") =>
          NeverMore(find_matches_with(F025, Strip(lastRead.request.text),
                                      lastRead.rows, lastRead.prefetched),
                    lastRead.matches, FullAtThreeQuarters, FullAtOne)
    /\ Returned("quick_match") =>
          LET With(threshold, text, language, max_results) ==
                  quick_find_matches_with(threshold, text, language, max_results,
                                          lastRead.rows, lastRead.prefetched)
              Count(text, language, max_results) ==
                  NeverMore(With(F025, text, language, max_results),
                            lastRead.matches,
                            With(F075, text, language, max_results),
                            With(FOne, text, language, max_results))
          IN  Count(Strip(lastRead.request.text),
                    QuickLanguage(lastRead.request.language),
                    Min(lastRead.request.max_results, QUICK_MAX_RESULTS))

\* C27 happens: the full matcher answered with five candidates, and would
\* return fewer for 0.75 and fewer still for 1.0.
C27_Witness ==
    /\ Returned("match")
    /\ Len(lastRead.matches) = 5
    /\ Len(FullAtThreeQuarters) \in 1..4
    /\ Len(FullAtOne) < Len(FullAtThreeQuarters)

(***************************************************************************)
(* Further properties of the confirm endpoint and of the parser            *)
(***************************************************************************)

\* The number of rows of the usage log that name exercise e.
LogRowsOf(e) ==
    BagCardinality([l \in {x \in BagToSet(logs) : x.exercise = e} |-> logs[l]])

\* C28: the writes of a confirm request are all-or-nothing: once no request
\* is under way, the usage log holds one row for each request answered 201
\* and none for a request that ended in an error, and no usage_count counts
\* a request that ended in an error.
C28_AllOrNothing ==
    AllIdle =>
        \A e \in ExerciseIds :
            /\ LogRowsOf(e) = confirmed[e]
            /\ usage_count[e] <= confirmed[e]

\* The total declared before the colon of the first marker of t.
DeclaredTotal(t) ==
    LET At(i) == extract_number(Slice(t, i, NumEnd(t, i) - 1))
    IN  At(ComplexMarker(t))

\* The text t with the total declared before the colon written as c.
WithDeclared(t, c) ==
    LET At(i) == Slice(t, 1, i - 1) \o c \o Slice(t, NumEnd(t, i), Len(t))
    IN  At(ComplexMarker(t))

\* Other totals to declare: 0, 1 and 12.
OtherTotals == {<<"0">>, <<"odin">>, <<"1", "2">>}

\* C29: a result of the complex pattern holds as many sets as the counts of
\* the groups that matched add up to, and the total declared before the
\* colon has no part in it: the same command with another total declared
\* gives the same name and the same sets.
C29_DeclaredTotalUnused ==
    pstage = "done_complex" =>
        LET Holds(t, stated) ==
                /\ Len(presult.sets) = SetsBefore(stated, Len(stated) + 1)
                /\ \A c \in OtherTotals :
                      LET Same(other) ==
                              /\ other.is_structured
                              /\ other.exercise_name = presult.exercise_name
                              /\ other.sets = presult.sets
                      IN  Same(parse(WithDeclared(t, c)))
        IN  Holds(ParsedText, GroupsStated(ParsedText))

\* C29 happens: the groups gave more sets than the total declared, which is
\* not 0.
C29_Witness ==
    /\ pstage = "done_complex"
    /\ DeclaredTotal(ParsedText) > 0
    /\ Len(presult.sets) > DeclaredTotal(ParsedText)

\* C30: no alias created by promotion (a row after the seeded ones) has an
\* empty alias string, whatever confirm requests were served.
C30_NoEmptyAlias ==
    \A k \in DOMAIN aliases :
        k > Len(SeedAliases) => aliases[k].alias # <<>>
====
